---- MODULE Spec2Model ----
(***************************************************************************)
(* Pirate Farkle: the turn engines and scoring functions of the server     *)
(* variants kept in this repository.                                       *)
(*                                                                         *)
(*   P2_*  : src/unnamed/part_002   (create_table / join_table / roll ...) *)
(*   App_* : src/public/app.js, lines 278-794 (room:create / turn:roll ...)*)
(*   S2_*  : src/server.js, lines 499-999 (game:roll / game:keep ...)      *)
(*   S1_*  : src/server.js, lines 1-498 (clientId seats, held dice)        *)
(*   P1_*  : src/unnamed/part_001   (scoring engine, room:join / turn:bank)*)
(*                                                                         *)
(* Dice and masks are functions over 0..5, as the arrays of the source.    *)
(***************************************************************************)
EXTENDS Integers, Sequences, FiniteSets, TLC

VARIABLES
  sc_in,      \* scoring harness: the selection (a sequence of faces) under test
  sc_out,     \* scoring harness: the results of the scoring functions on sc_in
  p2_rooms,   \* part_002: rooms[code]
  p2_sock,    \* part_002: per connection, socket.data and whether it is connected
  p2_last,    \* part_002: the last event handled and what it emitted
  app_rooms,  \* app.js server: rooms (Map code -> room)
  app_conn,   \* app.js server: connections that are connected
  app_last,   \* app.js server: the last event handled and what it emitted
  s2_rooms,   \* server.js (second server): rooms (Map code -> room)
  s2_conn,    \* server.js (second server): connections that are connected
  s2_last,    \* server.js (second server): the last event handled and what it emitted
  p1_rooms,   \* part_001: rooms (Map code -> room)
  p1_conn,    \* part_001: connections that are connected
  p1_last,    \* part_001: the last event handled and what it emitted
  s1_rooms,   \* server.js (first server): rooms (Map code -> room)
  s1_sock,    \* server.js (first server): per connection, socket.data and whether it is connected
  s1_last,    \* server.js (first server): the last event handled and what it emitted
  app_out     \* app.js server: the last room state sent to a client

scVars  == <<sc_in, sc_out>>
p2Vars  == <<p2_rooms, p2_sock, p2_last>>
appVars == <<app_rooms, app_conn, app_last, app_out>>
s2Vars  == <<s2_rooms, s2_conn, s2_last>>
p1Vars  == <<p1_rooms, p1_conn, p1_last>>
s1Vars  == <<s1_rooms, s1_sock, s1_last>>
vars    == <<sc_in, sc_out, p2_rooms, p2_sock, p2_last,
             app_rooms, app_conn, app_last, s2_rooms, s2_conn, s2_last,
             p1_rooms, p1_conn, p1_last, s1_rooms, s1_sock, s1_last, app_out>>

\* ------------------------------------------------------------------ common

Faces == 1..6
Idx   == 0..5
Seats == {0, 1}
NoFalse == [i \in Idx |-> FALSE]
Null  == "null"

\* number of dice of face f in the array s
Count(s, f) == Cardinality({i \in DOMAIN s : s[i] = f})

countsOf(s) == [f \in Faces |-> Count(s, f)]

\* the faces that occur in s (the keys of a Map / object of counts)
Present(s) == {f \in Faces : Count(s, f) > 0}

\* the array of s[i] for the indices i in I, in increasing index order
RECURSIVE FilterIdx(_, _, _, _)
FilterIdx(s, I, i, hi) ==
  IF i > hi THEN <<>>
  ELSE (IF i \in I THEN <<s[i]>> ELSE <<>>) \o FilterIdx(s, I, i + 1, hi)

\* values of a 0..5 array at the index set I
At(d, I) == FilterIdx(d, I, 0, 5)

\* sub-array of a sequence at the index set I
Sub(s, I) == FilterIdx(s, I, 1, Len(s))

base(f) == IF f = 1 THEN 1000 ELSE f * 100

\* ------------------------------------------------- part_002: scoring

P2_isStraight(sel)    == Len(sel) = 6 /\ \A f \in Faces : Count(sel, f) = 1
P2_isThreePairs(sel)  == Len(sel) = 6 /\ Cardinality(Present(sel)) = 3
                         /\ \A f \in Present(sel) : Count(sel, f) = 2
P2_isTwoTriplets(sel) == Len(sel) = 6 /\ Cardinality(Present(sel)) = 2
                         /\ \A f \in Present(sel) : Count(sel, f) = 3

\* counts after the n-of-a-kind loop: counts.set(face, n - 3)
P2_leftover(sel, f) == IF Count(sel, f) >= 3 THEN Count(sel, f) - 3 ELSE Count(sel, f)

P2_kindScore(sel) ==
  LET pts(f) == IF Count(sel, f) >= 3 THEN base(f) * 2 ^ (Count(sel, f) - 3) ELSE 0
  IN  pts(1) + pts(2) + pts(3) + pts(4) + pts(5) + pts(6)

P2_scoreSelected(sel) ==
  IF Len(sel) = 0 THEN [score |-> 0, allScoring |-> FALSE]
  ELSE IF P2_isStraight(sel) THEN [score |-> 1500, allScoring |-> TRUE]
  ELSE IF P2_isThreePairs(sel) THEN [score |-> 1500, allScoring |-> TRUE]
  ELSE IF P2_isTwoTriplets(sel) THEN [score |-> 2500, allScoring |-> TRUE]
  ELSE LET score == P2_kindScore(sel) + P2_leftover(sel, 1) * 100
                                      + P2_leftover(sel, 5) * 50
       IN IF \E f \in Present(sel) : P2_leftover(sel, f) > 0 /\ f # 1 /\ f # 5
          THEN [score |-> 0, allScoring |-> FALSE]
          ELSE [score |-> score, allScoring |-> score > 0]

P2_anyKind_Off(diceFaces) == FALSE
P2_anyKind(diceFaces) == \E f \in Present(diceFaces) : Count(diceFaces, f) >= 3

\* every roll taken to hold a scoring die
P2_availableScoringFaces_Always(diceFaces) == TRUE
P2_availableScoringFaces(diceFaces) ==
  \/ P2_isStraight(diceFaces)
  \/ P2_isThreePairs(diceFaces)
  \/ P2_isTwoTriplets(diceFaces)
  \/ Count(diceFaces, 1) > 0
  \/ Count(diceFaces, 5) > 0
  \/ P2_anyKind(diceFaces)

\* ------------------------------------------------- app.js server: scoring

App_isStraight(values)    == \A f \in Faces : Count(values, f) = 1
App_pairs(values)         == Cardinality({f \in Faces : Count(values, f) = 2})
App_triplets_One(values)  == Cardinality({f \in Faces : Count(values, f) = 3}) + 1
App_triplets(values)      == Cardinality({f \in Faces : Count(values, f) = 3})

\* remaining[f] after the n-of-a-kind loop: remaining[f] -= c
App_remaining_Three(values, f) ==
  IF Count(values, f) >= 3 THEN Count(values, f) - 3 ELSE Count(values, f)
App_remaining(values, f) == IF Count(values, f) >= 3 THEN 0 ELSE Count(values, f)

App_kindScore(values) ==
  LET pts(f) == IF Count(values, f) >= 3 THEN base(f) * 2 ^ (Count(values, f) - 3) ELSE 0
  IN  pts(1) + pts(2) + pts(3) + pts(4) + pts(5) + pts(6)

App_general(values) ==
  LET score == App_kindScore(values) + App_remaining(values, 1) * 100
                                     + App_remaining(values, 5) * 50
  IN  IF \E f \in Faces \ {1, 5} : App_remaining(values, f) > 0
      THEN [ok |-> FALSE, score |-> 0]
      ELSE IF score <= 0 THEN [ok |-> FALSE, score |-> 0]
      ELSE [ok |-> TRUE, score |-> score]

App_scoreSelection(values) ==
  IF Len(values) = 0 THEN [ok |-> FALSE, score |-> 0]
  ELSE IF Len(values) = 6 /\ App_isStraight(values) THEN [ok |-> TRUE, score |-> 1500]
  ELSE IF Len(values) = 6 /\ App_pairs(values) = 3 THEN [ok |-> TRUE, score |-> 1500]
  ELSE IF Len(values) = 6 /\ App_triplets(values) = 2 THEN [ok |-> TRUE, score |-> 2500]
  ELSE App_general(values)

\* hasAnyScoring takes the counts of the unkept dice; here the dice themselves
App_hasAnyScoring(values) ==
  \/ App_isStraight(values)
  \/ Len(values) = 6 /\ App_pairs(values) = 3
  \/ Len(values) = 6 /\ App_triplets(values) = 2
  \/ Count(values, 1) > 0
  \/ Count(values, 5) > 0
  \/ \E f \in Faces : Count(values, f) >= 3

\* ------------------------------------------------- part_001: scoring

P1_isStraight(values)     == \A f \in Faces : Count(values, f) = 1
P1_isThreePairs(values)   == Cardinality({f \in Faces : Count(values, f) = 2}) = 3
P1_isTwoTriplets(values)  == Cardinality({f \in Faces : Count(values, f) = 3}) = 2
P1_isFourPlusPair(values) == /\ \E f \in Faces : Count(values, f) = 4
                             /\ \E f \in Faces : Count(values, f) = 2

P1_scoreNOfAKind_Pow(face, n) == IF n \in 3..6 THEN base(face) * 2 ^ (n - 3) ELSE 0
P1_scoreNOfAKind(face, n) ==
  IF n = 3 THEN base(face)
  ELSE IF n = 4 THEN base(face) * 2
  ELSE IF n = 5 THEN base(face) * 3
  ELSE IF n = 6 THEN base(face) * 4
  ELSE 0

P1_general(values) ==
  LET pts(f)  == IF Count(values, f) >= 3 THEN P1_scoreNOfAKind(f, Count(values, f)) ELSE 0
      left(f) == IF Count(values, f) >= 3 THEN 0 ELSE Count(values, f)
      points  == pts(1) + pts(2) + pts(3) + pts(4) + pts(5) + pts(6) + left(1) * 100 + left(5) * 50
  IN  IF \E f \in {2, 3, 4, 6} : left(f) > 0 THEN [ok |-> FALSE, points |-> 0]
      ELSE IF points <= 0 THEN [ok |-> FALSE, points |-> 0]
      ELSE [ok |-> TRUE, points |-> points]

P1_scoreSelection(values) ==
  IF Len(values) = 0 THEN [ok |-> FALSE, points |-> 0]
  ELSE IF Len(values) = 6 /\ P1_isStraight(values) THEN [ok |-> TRUE, points |-> 1500]
  ELSE IF Len(values) = 6 /\ P1_isThreePairs(values) THEN [ok |-> TRUE, points |-> 1500]
  ELSE IF Len(values) = 6 /\ P1_isTwoTriplets(values) THEN [ok |-> TRUE, points |-> 2500]
  ELSE IF Len(values) = 6 /\ P1_isFourPlusPair(values) THEN [ok |-> TRUE, points |-> 1500]
  ELSE P1_general(values)

\* evaluateRoll without the n-of-a-kind marking
P1_evaluateRoll_Singles(diceValues) ==
  IF Len(diceValues) = 6
     /\ (\/ P1_isStraight(diceValues) \/ P1_isThreePairs(diceValues)
         \/ P1_isTwoTriplets(diceValues) \/ P1_isFourPlusPair(diceValues))
  THEN DOMAIN diceValues
  ELSE {k \in DOMAIN diceValues : diceValues[k] \in {1, 5}}
\* the positions of diceValues that evaluateRoll marks selectable
P1_evaluateRoll(diceValues) ==
  IF Len(diceValues) = 6
     /\ (\/ P1_isStraight(diceValues) \/ P1_isThreePairs(diceValues)
         \/ P1_isTwoTriplets(diceValues) \/ P1_isFourPlusPair(diceValues))
  THEN DOMAIN diceValues
  ELSE {k \in DOMAIN diceValues :
          \/ Count(diceValues, diceValues[k]) >= 3
          \/ diceValues[k] \in {1, 5}}

\* ------------------------------------------------- scoring harness

\* the selections under test: every multiset of 0..MaxDice faces, as a sorted array
MaxDice == 6

Sorted(s) == \A i \in 1..(Len(s) - 1) : s[i] <= s[i + 1]

Selections == UNION {{s \in [1..n -> Faces] : Sorted(s)} : n \in 0..MaxDice}

ScNone == [applied |-> FALSE]

\* apply every scoring function to the selection
ScApply ==
  /\ ~sc_out.applied
  /\ sc_out' = [applied |-> TRUE,
                p2    |-> P2_scoreSelected(sc_in),
                avail |-> P2_availableScoringFaces(sc_in),
                app   |-> App_scoreSelection(sc_in),
                p1    |-> P1_scoreSelection(sc_in),
                p1sel |-> P1_evaluateRoll(sc_in)]
  /\ UNCHANGED sc_in

\* take the next selection
ScNext ==
  /\ sc_out.applied
  /\ sc_in' \in Selections
  /\ sc_out' = ScNone


\* ------------------------------------------------- part_002: server

NoSeat == -1      \* winnerSeat: null, socket.data.seat: undefined
NoSock == 0       \* socketId: null
WIN    == 10000

\* model bounds: a keep that would take turnPoints above MaxTurnPoints and a bank
\* that would take a score above MaxScore are not explored
MaxTurnPoints == 2000
MaxScore      == 12000

P2_freshGame ==
  [started |-> FALSE, winnerSeat |-> NoSeat, turnSeat |-> 0, phase |-> "waiting",
   dice |-> [i \in Idx |-> 0], keptMask |-> NoFalse, remaining |-> 6,
   turnPoints |-> 0, lastAction |-> ""]

P2_emptySeat == [name |-> Null, socketId |-> NoSock, score |-> 0, online |-> FALSE]

\* (name || "").trim().slice(0, 20) || "Player"; the names sent are short and trimmed
P2_safeName(name) == IF name = "" THEN "Player" ELSE name

toLowerCase(name) ==
  IF name = "Ann" THEN "ann"
  ELSE IF name = "Bea" THEN "bea"
  ELSE IF name = "Player" THEN "player"
  ELSE name

P2_countRemaining(game) == 6 - Cardinality({i \in Idx : game.keptMask[i]})

P2_resetTurnKeep_KeepPoints(game) ==
  [game EXCEPT !.dice = [i \in Idx |-> 0], !.keptMask = NoFalse, !.remaining = 6]
P2_resetTurnKeep(game) ==
  [game EXCEPT !.turnPoints = 0, !.dice = [i \in Idx |-> 0],
               !.keptMask = NoFalse, !.remaining = 6]

P2_startIfReady_NoPhase(room) ==
  IF room.players[0].name # Null /\ room.players[1].name # Null /\ ~room.game.started
  THEN [room EXCEPT !.game =
          [P2_resetTurnKeep(room.game) EXCEPT !.started = TRUE, !.winnerSeat = NoSeat,
             !.turnSeat = 0, !.lastAction = "started"]]
  ELSE room
P2_startIfReady(room) ==
  IF room.players[0].name # Null /\ room.players[1].name # Null /\ ~room.game.started
  THEN [room EXCEPT !.game =
          [P2_resetTurnKeep(room.game) EXCEPT !.started = TRUE, !.winnerSeat = NoSeat,
             !.turnSeat = 0, !.phase = "must_roll", !.lastAction = "started"]]
  ELSE room

P2_nextTurn(game, msg) ==
  IF game.winnerSeat # NoSeat
  THEN [game EXCEPT !.phase = "finished", !.lastAction = msg]
  ELSE [P2_resetTurnKeep(game) EXCEPT !.turnSeat = IF game.turnSeat = 0 THEN 1 ELSE 0,
                                      !.phase = "must_roll", !.lastAction = msg]

\* rollDice: only the unkept dice take the faces thrown
P2_rollDice(game, thrown) ==
  [game EXCEPT !.dice = [i \in Idx |-> IF game.keptMask[i] THEN game.dice[i] ELSE thrown[i]]]

P2_unkept(game) == {i \in Idx : ~game.keptMask[i]}

\* what a handler emitted: a toast to the caller, a 'state' broadcast to the room
P2_Emit(ev, c, toast, state) ==
  p2_last' = [ev |-> ev, conn |-> c, toast |-> toast, state |-> state]

P2_Reject(ev, c, toast) ==
  /\ P2_Emit(ev, c, toast, FALSE)
  /\ UNCHANGED <<p2_rooms, p2_sock>>

P2_hasRoom(c) == p2_sock[c].roomCode \in DOMAIN p2_rooms

P2_create_table(c, code, name) ==
  /\ p2_sock[c].up
  /\ code \notin DOMAIN p2_rooms
  /\ LET safeName == P2_safeName(name)
         room == [code |-> code,
                  players |-> [s \in Seats |->
                     IF s = 0 THEN [name |-> safeName, socketId |-> c, score |-> 0,
                                    online |-> TRUE]
                     ELSE P2_emptySeat],
                  game |-> [P2_freshGame EXCEPT !.lastAction = "created"]]
     IN /\ p2_rooms' = [r \in DOMAIN p2_rooms \cup {code} |->
                          IF r = code THEN room ELSE p2_rooms[r]]
        /\ p2_sock' = [p2_sock EXCEPT ![c].roomCode = code, ![c].seat = 0]
        /\ P2_Emit("create_table", c, FALSE, TRUE)

\* the seat join_table picks: the seat holding the name, else the first empty one
P2_findSeat(room, safeName) ==
  IF \E i \in Seats : room.players[i].name # Null
                      /\ toLowerCase(room.players[i].name) = toLowerCase(safeName)
  THEN CHOOSE i \in Seats :
         /\ room.players[i].name # Null
         /\ toLowerCase(room.players[i].name) = toLowerCase(safeName)
         /\ \A j \in Seats : (j < i) =>
              ~(room.players[j].name # Null
                /\ toLowerCase(room.players[j].name) = toLowerCase(safeName))
  ELSE IF room.players[0].name # Null
       THEN (IF room.players[1].name # Null THEN NoSeat ELSE 1)
       ELSE 0

P2_join_table(c, code, name) ==
  /\ p2_sock[c].up
  /\ IF code \notin DOMAIN p2_rooms THEN P2_Reject("join_table", c, TRUE)
     ELSE LET room == p2_rooms[code]
              safeName == P2_safeName(name)
              seat == P2_findSeat(room, safeName)
          IN IF seat = NoSeat THEN P2_Reject("join_table", c, TRUE)
             ELSE LET seated == [room EXCEPT !.players[seat].name = safeName,
                                             !.players[seat].socketId = c,
                                             !.players[seat].online = TRUE,
                                             !.game.lastAction = "joined"]
                  IN /\ p2_rooms' = [p2_rooms EXCEPT ![code] = P2_startIfReady(seated)]
                     /\ p2_sock' = [p2_sock EXCEPT ![c].roomCode = code, ![c].seat = seat]
                     /\ P2_Emit("join_table", c, FALSE, TRUE)

P2_new_game(c) ==
  /\ p2_sock[c].up
  /\ IF ~P2_hasRoom(c) THEN P2_Reject("new_game", c, FALSE)
     ELSE LET code == p2_sock[c].roomCode
              room == p2_rooms[code]
              wiped == [room EXCEPT !.players[0].score = 0, !.players[1].score = 0,
                                    !.game = P2_freshGame]
              ready == P2_startIfReady(wiped)
          IN /\ p2_rooms' = [p2_rooms EXCEPT ![code] =
                               [ready EXCEPT !.game.lastAction = "new_game"]]
             /\ P2_Emit("new_game", c, FALSE, TRUE)
             /\ UNCHANGED p2_sock

\* the guards shared by roll, keep and bank
P2_notYourTurn_Off(room, seat) == FALSE
P2_notYourTurn(room, seat) == seat # room.game.turnSeat

\* the sync guard left out
P2_outOfSync_Off(room, seat, c) == FALSE
\* room.players[seat].socketId !== socket.id
P2_outOfSync(room, seat, c) == room.players[seat].socketId # c

P2_roll(c, thrown) ==
  /\ p2_sock[c].up
  /\ IF ~P2_hasRoom(c) THEN P2_Reject("roll", c, FALSE)
     ELSE LET code == p2_sock[c].roomCode
              seat == p2_sock[c].seat
              room == p2_rooms[code]
          IN IF ~room.game.started THEN P2_Reject("roll", c, TRUE)
             ELSE IF P2_notYourTurn(room, seat) THEN P2_Reject("roll", c, TRUE)
             ELSE IF P2_outOfSync(room, seat, c) THEN P2_Reject("roll", c, TRUE)
             ELSE IF room.game.phase # "must_roll" /\ room.game.phase # "selecting"
                  THEN P2_Reject("roll", c, TRUE)
             ELSE LET rolled == P2_rollDice(room.game, thrown)
                      rolledFaces == At(rolled.dice, P2_unkept(rolled))
                      after == IF ~P2_availableScoringFaces(rolledFaces)
                               THEN P2_nextTurn(rolled, "farkled")
                               ELSE [rolled EXCEPT !.phase = "selecting",
                                                   !.lastAction = "rolled"]
                  IN /\ p2_rooms' = [p2_rooms EXCEPT ![code].game = after]
                     /\ P2_Emit("roll", c, FALSE, TRUE)
                     /\ UNCHANGED p2_sock

\* [...new Set(idxs)].filter(i => Number.isInteger(i) && i >= 0 && i < 6)
P2_unique(indices) == {indices[k] : k \in DOMAIN indices} \cap Idx

\* keep: a selected index whose die is already kept
P2_alreadyKept_Off(game, unique) == FALSE
P2_alreadyKept(game, unique) == \E i \in unique : game.keptMask[i]

\* keep: the hot-dice branch, taken when every keptMask entry is now true
P2_hotDice_NoReset(game) ==
  [game EXCEPT !.remaining = 6, !.lastAction = "hot_dice", !.phase = "must_roll"]
P2_hotDice_NewTurn(game) ==
  [P2_resetTurnKeep(game) EXCEPT !.lastAction = "hot_dice", !.phase = "must_roll"]
P2_hotDice(game) ==
  [game EXCEPT !.keptMask = NoFalse, !.remaining = 6, !.lastAction = "hot_dice",
               !.phase = "must_roll"]

P2_keep(c, indices) ==
  /\ p2_sock[c].up
  /\ IF ~P2_hasRoom(c) THEN P2_Reject("keep", c, FALSE)
     ELSE LET code == p2_sock[c].roomCode
              seat == p2_sock[c].seat
              room == p2_rooms[code]
              game == room.game
              unique == P2_unique(indices)
              res == P2_scoreSelected(At(game.dice, unique))
          IN IF ~game.started THEN P2_Reject("keep", c, FALSE)
             ELSE IF P2_notYourTurn(room, seat) THEN P2_Reject("keep", c, TRUE)
             ELSE IF P2_outOfSync(room, seat, c) THEN P2_Reject("keep", c, TRUE)
             ELSE IF game.phase # "selecting" THEN P2_Reject("keep", c, TRUE)
             ELSE IF P2_alreadyKept(game, unique) THEN P2_Reject("keep", c, TRUE)
             ELSE IF ~res.allScoring THEN P2_Reject("keep", c, TRUE)
             ELSE LET mask == [i \in Idx |-> game.keptMask[i] \/ i \in unique]
                      kept == [game EXCEPT !.keptMask = mask,
                                           !.turnPoints = game.turnPoints + res.score]
                      after == IF \A i \in Idx : mask[i]
                               THEN P2_hotDice(kept)
                               ELSE [kept EXCEPT !.remaining = P2_countRemaining(kept),
                                                 !.lastAction = "kept",
                                                 !.phase = "must_roll"]
                  IN /\ game.turnPoints + res.score <= MaxTurnPoints
                     /\ p2_rooms' = [p2_rooms EXCEPT ![code].game = after]
                     /\ P2_Emit("keep", c, FALSE, TRUE)
                     /\ UNCHANGED p2_sock

\* the win check of bank
P2_wins_Above(score) == score > WIN
P2_wins(score) == score >= WIN

P2_bank(c) ==
  /\ p2_sock[c].up
  /\ IF ~P2_hasRoom(c) THEN P2_Reject("bank", c, FALSE)
     ELSE LET code == p2_sock[c].roomCode
              seat == p2_sock[c].seat
              room == p2_rooms[code]
              banked == room.game.turnPoints
          IN IF ~room.game.started THEN P2_Reject("bank", c, FALSE)
             ELSE IF P2_notYourTurn(room, seat) THEN P2_Reject("bank", c, TRUE)
             ELSE IF P2_outOfSync(room, seat, c) THEN P2_Reject("bank", c, TRUE)
             ELSE IF banked <= 0 THEN P2_Reject("bank", c, TRUE)
             ELSE LET paid == [room EXCEPT !.players[seat].score = @ + banked]
                      after == IF P2_wins(paid.players[seat].score)
                               THEN [paid EXCEPT !.game.winnerSeat = seat,
                                                 !.game.phase = "finished",
                                                 !.game.lastAction = "wins"]
                               ELSE [paid EXCEPT !.game = P2_nextTurn(paid.game, "banked")]
                  IN /\ paid.players[seat].score <= MaxScore
                     /\ p2_rooms' = [p2_rooms EXCEPT ![code] = after]
                     /\ P2_Emit("bank", c, FALSE, TRUE)
                     /\ UNCHANGED p2_sock

P2_disconnect(c) ==
  /\ p2_sock[c].up
  /\ p2_sock' = [p2_sock EXCEPT ![c].up = FALSE]
  /\ IF ~P2_hasRoom(c)
     THEN P2_Emit("disconnect", c, FALSE, FALSE) /\ UNCHANGED p2_rooms
     ELSE LET code == p2_sock[c].roomCode
              seat == p2_sock[c].seat
              room == p2_rooms[code]
          IN IF seat \in Seats /\ room.players[seat].socketId = c
             THEN /\ p2_rooms' = [p2_rooms EXCEPT ![code] =
                       [room EXCEPT !.players[seat].online = FALSE,
                                    !.players[seat].socketId = NoSock,
                                    !.game.lastAction = "disconnected"]]
                  /\ P2_Emit("disconnect", c, FALSE, TRUE)
             ELSE P2_Emit("disconnect", c, FALSE, FALSE) /\ UNCHANGED p2_rooms

\* ---- the part_002 server under a bounded environment

P2AllConns == {1, 2, 3}

\* the name each connection signs with
P2NameOf(c) == IF c = 1 THEN {"Ann"} ELSE IF c = 2 THEN {"Bea"} ELSE {"ann"}

\* the throws explored: six 1s, and a throw with no scoring die
P2Throws ==
  { <<1, 1, 1, 1, 1, 1>>, <<2, 2, 3, 3, 4, 6>> }

Thrown(t) == [i \in Idx |-> t[i + 1]]

\* the index lists sent with keep
P2Keeps ==
  { <<0, 1, 2>>, <<3, 4, 5>>, <<>>, <<0, 1, 2, 2>>, <<0, 1, 2, 6>> }

\* the values of the variables before anything has happened
NoRooms  == [r \in {} |-> 0]
P2Sock0  == [c \in P2AllConns |-> [up |-> TRUE, roomCode |-> Null, seat |-> NoSeat]]
Last0    == [ev |-> "none", conn |-> NoSock, toast |-> FALSE, state |-> FALSE]

\* the first server of server.js: the connections and their socket.data before anything
\* has happened (roomCode, clientId and seat are null)
S1Conns == {1, 2, 3}
S1Sock0 == [c \in S1Conns |-> [up |-> TRUE, roomCode |-> Null, clientId |-> Null, seat |-> NoSeat]]

\* app.js server: nothing has been sent to a client yet
App_noPayload == [kind |-> "none"]

\* ---- specification: the scoring functions applied to every selection

InitScore ==
  /\ sc_in \in Selections /\ sc_out = ScNone
  /\ p2_rooms = NoRooms /\ p2_sock = P2Sock0 /\ p2_last = Last0
  /\ app_rooms = NoRooms /\ app_conn = {} /\ app_last = Last0
  /\ s2_rooms = NoRooms /\ s2_conn = {} /\ s2_last = Last0
  /\ p1_rooms = NoRooms /\ p1_conn = {} /\ p1_last = Last0
  /\ s1_rooms = NoRooms /\ s1_sock = S1Sock0 /\ s1_last = Last0
  /\ app_out = App_noPayload

NextScore ==
  \/ ScApply /\ UNCHANGED <<p2Vars, appVars, s2Vars, p1Vars, s1Vars>>
  \/ ScNext /\ UNCHANGED <<p2Vars, appVars, s2Vars, p1Vars, s1Vars>>

SpecScore == InitScore /\ [][NextScore]_vars

\* ---- specification: the part_002 server, two connections at one table

P2Conns == {1, 2}
P2Codes == {"R1"}

InitP2 ==
  /\ sc_in = <<>> /\ sc_out = ScNone
  /\ p2_rooms = NoRooms /\ p2_sock = P2Sock0 /\ p2_last = Last0
  /\ app_rooms = NoRooms /\ app_conn = {} /\ app_last = Last0
  /\ s2_rooms = NoRooms /\ s2_conn = {} /\ s2_last = Last0
  /\ p1_rooms = NoRooms /\ p1_conn = {} /\ p1_last = Last0
  /\ s1_rooms = NoRooms /\ s1_sock = S1Sock0 /\ s1_last = Last0
  /\ app_out = App_noPayload

P2Frame == UNCHANGED <<scVars, appVars, s2Vars, p1Vars, s1Vars>>

NextP2 ==
  \/ \E c \in P2Conns : \E code \in P2Codes, name \in P2NameOf(c) :
       P2_create_table(c, code, name) /\ P2Frame
  \/ \E c \in P2Conns : \E code \in P2Codes, name \in P2NameOf(c) :
       P2_join_table(c, code, name) /\ P2Frame
  \/ \E c \in P2Conns : P2_new_game(c) /\ P2Frame
  \/ \E c \in P2Conns, t \in P2Throws : P2_roll(c, Thrown(t)) /\ P2Frame
  \/ \E c \in P2Conns, k \in P2Keeps : P2_keep(c, k) /\ P2Frame
  \/ \E c \in P2Conns : P2_bank(c) /\ P2Frame
  \/ \E c \in P2Conns : P2_disconnect(c) /\ P2Frame

SpecP2 == InitP2 /\ [][NextP2]_vars

\* ---- specification: the part_002 lobby, three connections (two of them signing with
\* names that differ only in case) that create, join, restart and leave one table

NextP2Lobby ==
  \/ \E c \in P2AllConns : \E code \in P2Codes, name \in P2NameOf(c) :
       P2_create_table(c, code, name) /\ P2Frame
  \/ \E c \in P2AllConns : \E code \in P2Codes, name \in P2NameOf(c) :
       P2_join_table(c, code, name) /\ P2Frame
  \/ \E c \in P2AllConns : P2_new_game(c) /\ P2Frame
  \/ \E c \in P2AllConns : P2_disconnect(c) /\ P2Frame

SpecP2Lobby == InitP2 /\ [][NextP2Lobby]_vars

\* ---- specification: the part_002 lobby with two table codes, so that one connection
\* can create or join a second table after its first

P2RoomCodes == {"R1", "R2"}

NextP2Rooms ==
  \/ \E c \in P2Conns : \E code \in P2RoomCodes, name \in P2NameOf(c) :
       P2_create_table(c, code, name) /\ P2Frame
  \/ \E c \in P2Conns : \E code \in P2RoomCodes, name \in P2NameOf(c) :
       P2_join_table(c, code, name) /\ P2Frame
  \/ \E c \in P2Conns : P2_new_game(c) /\ P2Frame
  \/ \E c \in P2Conns : P2_disconnect(c) /\ P2Frame

SpecP2Rooms == InitP2 /\ [][NextP2Rooms]_vars

\* ---- specification: the part_002 server with a third connection that signs with the
\* first player's name (in another case) and so takes over seat 0 during the game

\* the index lists sent with keep
P2SyncKeeps == { <<0, 1, 2>>, <<>> }

\* model bound: a bank that would take a score above it is not explored
P2SyncMaxScore == 2000

NextP2Sync ==
  \/ \E c \in P2AllConns : \E code \in P2Codes, name \in P2NameOf(c) :
       P2_create_table(c, code, name) /\ P2Frame
  \/ \E c \in P2AllConns : \E code \in P2Codes, name \in P2NameOf(c) :
       P2_join_table(c, code, name) /\ P2Frame
  \/ \E c \in P2AllConns, t \in P2Throws : P2_roll(c, Thrown(t)) /\ P2Frame
  \/ \E c \in P2AllConns, k \in P2SyncKeeps : P2_keep(c, k) /\ P2Frame
  \/ \E c \in P2AllConns :
       /\ P2_bank(c) /\ P2Frame
       /\ \A r \in DOMAIN p2_rooms', s \in Seats :
            p2_rooms'[r].players[s].score <= P2SyncMaxScore
  \/ \E c \in P2AllConns : P2_disconnect(c) /\ P2Frame

SpecP2Sync == InitP2 /\ [][NextP2Sync]_vars

\* ---- specification: the part_002 turn with throws of every scoring kind and every
\* index list of distinct valid indices sent with keep

\* a straight, four 2s with a 5, three pairs, and a throw with no scoring die
P2DiceThrows ==
  { <<1, 2, 3, 4, 5, 6>>, <<2, 2, 2, 2, 3, 5>>, <<3, 3, 4, 4, 6, 6>>, <<2, 2, 3, 3, 4, 6>> }

\* the index lists sent with keep: the indices of I in increasing order
P2DiceKeeps == {At([i \in Idx |-> i], I) : I \in SUBSET Idx}

NextP2Dice ==
  \/ \E c \in P2Conns : \E code \in P2Codes, name \in P2NameOf(c) :
       P2_create_table(c, code, name) /\ P2Frame
  \/ \E c \in P2Conns : \E code \in P2Codes, name \in P2NameOf(c) :
       P2_join_table(c, code, name) /\ P2Frame
  \/ \E c \in P2Conns, t \in P2DiceThrows : P2_roll(c, Thrown(t)) /\ P2Frame
  \/ \E c \in P2Conns, k \in P2DiceKeeps : P2_keep(c, k) /\ P2Frame
  \/ \E c \in P2Conns : P2_disconnect(c) /\ P2Frame

SpecP2Dice == InitP2 /\ [][NextP2Dice]_vars

\* ------------------------------------------------- app.js: server

WIN_SCORE == 10000
NoIndex   == -1     \* winnerIndex: null, findIndex: -1

\* model bound: a keep that would take turn.turnPoints above it is not explored
AppMaxTurnPoints == 3000

App_makeFreshTurnState_Points ==
  [dice |-> [i \in Idx |-> 1], kept |-> NoFalse, canRoll |-> FALSE,
   hasRolled |-> FALSE, turnPoints |-> 50]
App_makeFreshTurnState ==
  [dice |-> [i \in Idx |-> 1], kept |-> NoFalse, canRoll |-> FALSE,
   hasRolled |-> FALSE, turnPoints |-> 0]

App_makeNewRoom ==
  [players |-> [s \in Seats |-> [socketId |-> NoSock, name |-> "", score |-> 0]],
   started |-> FALSE, currentTurn |-> 0, turn |-> App_makeFreshTurnState,
   winnerIndex |-> NoIndex]

\* room.players.findIndex(p => p.socketId === socketId)
App_getSeatIndex(room, c) ==
  IF room.players[0].socketId = c THEN 0
  ELSE IF room.players[1].socketId = c THEN 1
  ELSE NoIndex

App_otherSeat(seat) == IF seat = 0 THEN 1 ELSE 0

App_hardResetGame(room) ==
  [room EXCEPT !.players[0].score = 0, !.players[1].score = 0, !.started = TRUE,
               !.currentTurn = 0, !.turn = App_makeFreshTurnState,
               !.winnerIndex = NoIndex]

\* what a handler emitted: a ui:toast or ui:modal to the caller alone, a room:update
\* broadcast to the room
App_Emit(ev, c, toast, state) ==
  app_last' = [ev |-> ev, conn |-> c, toast |-> toast, state |-> state]

App_Reject(ev, c, toast) ==
  /\ App_Emit(ev, c, toast, FALSE)
  /\ UNCHANGED <<app_rooms, app_conn>>

\* String(name || "").trim().slice(0, 20) || dflt; the names sent are short and trimmed
App_cleanName(name, dflt) == IF name = "" THEN dflt ELSE name

App_disconnect_Vacate(c) ==
  /\ c \in app_conn
  /\ app_conn' = app_conn \ {c}
  /\ app_rooms' =
       [code \in DOMAIN app_rooms |->
          LET room == app_rooms[code]
              idx == App_getSeatIndex(room, c)
          IN IF idx # NoIndex THEN [room EXCEPT !.players[idx].socketId = NoSock,
                                                !.players[idx].name = ""]
             ELSE room]
  /\ App_Emit("disconnect", c, FALSE,
              \E code \in DOMAIN app_rooms : App_getSeatIndex(app_rooms[code], c) # NoIndex)
App_disconnect(c) ==
  /\ c \in app_conn
  /\ app_conn' = app_conn \ {c}
  /\ app_rooms' =
       [code \in DOMAIN app_rooms |->
          LET room == app_rooms[code]
              idx == App_getSeatIndex(room, c)
          IN IF idx # NoIndex THEN [room EXCEPT !.players[idx].socketId = NoSock]
             ELSE room]
  /\ App_Emit("disconnect", c, FALSE,
              \E code \in DOMAIN app_rooms : App_getSeatIndex(app_rooms[code], c) # NoIndex)

\* code is the fresh code makeRoomCode() returned
App_room_create(c, code, name) ==
  /\ c \in app_conn
  /\ code \notin DOMAIN app_rooms
  /\ app_rooms' =
       [k \in DOMAIN app_rooms \cup {code} |->
          IF k = code
          THEN [App_makeNewRoom EXCEPT !.players[0].socketId = c,
                                       !.players[0].name = App_cleanName(name, "Player 1")]
          ELSE app_rooms[k]]
  /\ App_Emit("room:create", c, FALSE, TRUE)
  /\ UNCHANGED app_conn

\* room.players.findIndex(p => !p.socketId)
App_openSeat_Last(room) ==
  IF room.players[1].socketId = NoSock THEN 1
  ELSE IF room.players[0].socketId = NoSock THEN 0
  ELSE NoIndex
App_openSeat(room) ==
  IF room.players[0].socketId = NoSock THEN 0
  ELSE IF room.players[1].socketId = NoSock THEN 1
  ELSE NoIndex

App_room_join(c, code, name) ==
  /\ c \in app_conn
  /\ IF code \notin DOMAIN app_rooms THEN App_Reject("room:join", c, TRUE)
     ELSE LET room == app_rooms[code]
              openSeat == App_openSeat(room)
          IN IF openSeat = NoIndex THEN App_Reject("room:join", c, TRUE)
             ELSE LET seated == [room EXCEPT !.players[openSeat].socketId = c,
                                   !.players[openSeat].name = App_cleanName(name, "Player")]
                      ready == seated.players[0].socketId # NoSock
                               /\ seated.players[1].socketId # NoSock /\ ~seated.started
                      after == IF ready
                               THEN [seated EXCEPT !.started = TRUE, !.currentTurn = 0,
                                                   !.turn = App_makeFreshTurnState,
                                                   !.winnerIndex = NoIndex]
                               ELSE seated
                  IN /\ app_rooms' = [app_rooms EXCEPT ![code] = after]
                     /\ App_Emit("room:join", c, FALSE, TRUE)
                     /\ UNCHANGED app_conn

App_game_new(c, code) ==
  /\ c \in app_conn
  /\ IF code \notin DOMAIN app_rooms THEN App_Reject("game:new", c, FALSE)
     ELSE LET room == app_rooms[code]
          IN IF App_getSeatIndex(room, c) = NoIndex THEN App_Reject("game:new", c, FALSE)
             ELSE /\ app_rooms' = [app_rooms EXCEPT ![code] = App_hardResetGame(room)]
                  /\ App_Emit("game:new", c, FALSE, TRUE)
                  /\ UNCHANGED app_conn

\* the guard shared by turn:roll, turn:keep and turn:bank
App_noGame(code) ==
  \/ code \notin DOMAIN app_rooms
  \/ ~app_rooms[code].started
  \/ app_rooms[code].winnerIndex # NoIndex

App_unkept(turn) == {i \in Idx : ~turn.kept[i]}

\* the roll loop: only the dice not kept take the faces thrown
App_rollDice_All(turn, thrown) == thrown
App_rollDice(turn, thrown) ==
  [i \in Idx |-> IF turn.kept[i] THEN turn.dice[i] ELSE thrown[i]]

App_turn_roll(c, code, thrown) ==
  /\ c \in app_conn
  /\ IF App_noGame(code) THEN App_Reject("turn:roll", c, FALSE)
     ELSE LET room == app_rooms[code]
              seat == App_getSeatIndex(room, c)
          IN IF seat = NoIndex THEN App_Reject("turn:roll", c, FALSE)
             ELSE IF seat # room.currentTurn THEN App_Reject("turn:roll", c, TRUE)
             ELSE IF room.turn.hasRolled /\ ~room.turn.canRoll
                  THEN App_Reject("turn:roll", c, TRUE)
             ELSE LET rolled == [room.turn EXCEPT
                                   !.dice = App_rollDice(room.turn, thrown),
                                   !.hasRolled = TRUE, !.canRoll = FALSE]
                      unkeptValues == At(rolled.dice, App_unkept(rolled))
                      after == IF ~App_hasAnyScoring(unkeptValues)
                               THEN [room EXCEPT !.turn = App_makeFreshTurnState,
                                        !.currentTurn = App_otherSeat(room.currentTurn)]
                               ELSE [room EXCEPT !.turn = rolled]
                  IN /\ app_rooms' = [app_rooms EXCEPT ![code] = after]
                     /\ App_Emit("turn:roll", c, FALSE, TRUE)
                     /\ UNCHANGED app_conn

\* [...new Set(idxs)] restricted to the integers 0..5
App_unique(indices) == {indices[k] : k \in DOMAIN indices} \cap Idx

App_allKept(kept) == \A i \in Idx : kept[i]

App_turn_keep(c, code, indices) ==
  /\ c \in app_conn
  /\ IF App_noGame(code) THEN App_Reject("turn:keep", c, FALSE)
     ELSE LET room == app_rooms[code]
              seat == App_getSeatIndex(room, c)
              unique == App_unique(indices)
              scored == App_scoreSelection(At(room.turn.dice, unique))
          IN IF seat = NoIndex THEN App_Reject("turn:keep", c, FALSE)
             ELSE IF seat # room.currentTurn THEN App_Reject("turn:keep", c, TRUE)
             ELSE IF ~room.turn.hasRolled THEN App_Reject("turn:keep", c, TRUE)
             ELSE IF unique = {} THEN App_Reject("turn:keep", c, TRUE)
             ELSE IF \E i \in unique : room.turn.kept[i]
                  THEN App_Reject("turn:keep", c, TRUE)
             ELSE IF ~scored.ok THEN App_Reject("turn:keep", c, TRUE)
             ELSE LET kept == [i \in Idx |-> room.turn.kept[i] \/ i \in unique]
                      turn == [room.turn EXCEPT
                                 !.kept = IF App_allKept(kept) THEN NoFalse ELSE kept,
                                 !.turnPoints = @ + scored.score,
                                 !.canRoll = TRUE]
                  IN /\ turn.turnPoints <= AppMaxTurnPoints
                     /\ app_rooms' = [app_rooms EXCEPT ![code].turn = turn]
                     /\ App_Emit("turn:keep", c, FALSE, TRUE)
                     /\ UNCHANGED app_conn

\* the points credited to both seats
App_bankPoints_Both(room, seat) ==
  [room EXCEPT !.players[0].score = @ + room.turn.turnPoints,
               !.players[1].score = @ + room.turn.turnPoints]
\* room.players[seat].score += pts
App_bankPoints(room, seat) ==
  [room EXCEPT !.players[seat].score = @ + room.turn.turnPoints]

App_turn_bank(c, code) ==
  /\ c \in app_conn
  /\ IF App_noGame(code) THEN App_Reject("turn:bank", c, FALSE)
     ELSE LET room == app_rooms[code]
              seat == App_getSeatIndex(room, c)
          IN IF seat = NoIndex THEN App_Reject("turn:bank", c, FALSE)
             ELSE IF seat # room.currentTurn THEN App_Reject("turn:bank", c, TRUE)
             ELSE IF ~room.turn.hasRolled THEN App_Reject("turn:bank", c, TRUE)
             ELSE IF room.turn.turnPoints <= 0 THEN App_Reject("turn:bank", c, TRUE)
             ELSE LET paid == App_bankPoints(room, seat)
                      after == IF paid.players[seat].score >= WIN_SCORE
                               THEN [paid EXCEPT !.winnerIndex = seat]
                               ELSE [paid EXCEPT !.turn = App_makeFreshTurnState,
                                        !.currentTurn = App_otherSeat(room.currentTurn)]
                  IN /\ app_rooms' = [app_rooms EXCEPT ![code] = after]
                     /\ App_Emit("turn:bank", c, FALSE, TRUE)
                     /\ UNCHANGED app_conn

\* ---- specification: the app.js server, two connections at one table

AppConns == {1, 2}
AppCodes == {"R1"}

\* the name each connection signs with
AppNameOf(c) == IF c = 1 THEN {"Ann"} ELSE {"Bea"}

\* the throws explored: a straight, and a throw with no scoring die
AppThrows == { <<1, 2, 3, 4, 5, 6>>, <<2, 2, 3, 3, 4, 6>> }

\* the index lists sent with turn:keep
AppKeeps == { <<0, 1, 2, 3, 4, 5>>, <<1, 2, 3>>, <<>>, <<1, 1, 6>> }

InitApp ==
  /\ sc_in = <<>> /\ sc_out = ScNone
  /\ p2_rooms = NoRooms /\ p2_sock = P2Sock0 /\ p2_last = Last0
  /\ app_rooms = NoRooms /\ app_conn = AppConns /\ app_last = Last0
  /\ s2_rooms = NoRooms /\ s2_conn = {} /\ s2_last = Last0
  /\ p1_rooms = NoRooms /\ p1_conn = {} /\ p1_last = Last0
  /\ s1_rooms = NoRooms /\ s1_sock = S1Sock0 /\ s1_last = Last0
  /\ app_out = App_noPayload

AppFrame == UNCHANGED <<scVars, p2Vars, s2Vars, p1Vars, s1Vars, app_out>>

NextApp ==
  \/ \E c \in AppConns : App_disconnect(c) /\ AppFrame
  \/ \E c \in AppConns : \E code \in AppCodes, name \in AppNameOf(c) :
       App_room_create(c, code, name) /\ AppFrame
  \/ \E c \in AppConns : \E code \in AppCodes, name \in AppNameOf(c) :
       App_room_join(c, code, name) /\ AppFrame
  \/ \E c \in AppConns, code \in AppCodes : App_game_new(c, code) /\ AppFrame
  \/ \E c \in AppConns, code \in AppCodes, t \in AppThrows :
       App_turn_roll(c, code, Thrown(t)) /\ AppFrame
  \/ \E c \in AppConns, code \in AppCodes, k \in AppKeeps :
       App_turn_keep(c, code, k) /\ AppFrame
  \/ \E c \in AppConns, code \in AppCodes : App_turn_bank(c, code) /\ AppFrame

SpecApp == InitApp /\ [][NextApp]_vars

\* ---- specification: the app.js server, turns with dice set aside: throws that allow
\* a keep of three dice, a second keep of the other three, and a farkle with dice kept

AppTurnThrows == { <<1, 1, 1, 1, 1, 1>>, <<5, 5, 5, 2, 2, 3>>, <<2, 2, 3, 3, 4, 6>> }

AppTurnKeeps == { <<0, 1, 2>>, <<3, 4, 5>>, <<>> }

\* model bound: a bank that would take a score above it is not explored
AppTurnMaxScore == 2000

NextAppTurn ==
  \/ \E c \in AppConns : \E code \in AppCodes, name \in AppNameOf(c) :
       App_room_create(c, code, name) /\ AppFrame
  \/ \E c \in AppConns : \E code \in AppCodes, name \in AppNameOf(c) :
       App_room_join(c, code, name) /\ AppFrame
  \/ \E c \in AppConns, code \in AppCodes : App_game_new(c, code) /\ AppFrame
  \/ \E c \in AppConns, code \in AppCodes, t \in AppTurnThrows :
       App_turn_roll(c, code, Thrown(t)) /\ AppFrame
  \/ \E c \in AppConns, code \in AppCodes, k \in AppTurnKeeps :
       App_turn_keep(c, code, k) /\ AppFrame
  \/ \E c \in AppConns, code \in AppCodes :
       /\ App_turn_bank(c, code) /\ AppFrame
       /\ \A r \in DOMAIN app_rooms', s \in Seats :
            app_rooms'[r].players[s].score <= AppTurnMaxScore

SpecAppTurn == InitApp /\ [][NextAppTurn]_vars

\* ---- specification: the app.js server with the room states it sends: room:update
\* carries publicRoomState(room), debug:state carries the room itself

\* log is a list of texts for display, left out here as in the room
App_publicRoomState(room) ==
  [started |-> room.started, currentTurn |-> room.currentTurn,
   winnerIndex |-> room.winnerIndex,
   players |-> [s \in Seats |-> [name |-> room.players[s].name,
                                 score |-> room.players[s].score,
                                 connected |-> room.players[s].socketId # NoSock]],
   turn |-> room.turn]

\* emitRoom(room), when the handler that has just run came to it
App_emitRoom(code) ==
  IF app_last'.state /\ code \in DOMAIN app_rooms'
  THEN app_out' = [kind |-> "room:update", room |-> App_publicRoomState(app_rooms'[code])]
  ELSE UNCHANGED app_out

App_debug_state(c, code) ==
  /\ c \in app_conn
  /\ IF code \notin DOMAIN app_rooms
     THEN App_Reject("debug:state", c, FALSE) /\ UNCHANGED app_out
     ELSE /\ app_out' = [kind |-> "debug:state", room |-> app_rooms[code]]
          /\ App_Emit("debug:state", c, FALSE, FALSE)
          /\ UNCHANGED <<app_rooms, app_conn>>

AppWireFrame == UNCHANGED <<scVars, p2Vars, s2Vars, p1Vars, s1Vars>>

NextAppWire ==
  \/ \E c \in AppConns, code \in AppCodes :
       App_disconnect(c) /\ App_emitRoom(code) /\ AppWireFrame
  \/ \E c \in AppConns : \E code \in AppCodes, name \in AppNameOf(c) :
       App_room_create(c, code, name) /\ App_emitRoom(code) /\ AppWireFrame
  \/ \E c \in AppConns : \E code \in AppCodes, name \in AppNameOf(c) :
       App_room_join(c, code, name) /\ App_emitRoom(code) /\ AppWireFrame
  \/ \E c \in AppConns, code \in AppCodes :
       App_game_new(c, code) /\ App_emitRoom(code) /\ AppWireFrame
  \/ \E c \in AppConns, code \in AppCodes, t \in AppThrows :
       App_turn_roll(c, code, Thrown(t)) /\ App_emitRoom(code) /\ AppWireFrame
  \/ \E c \in AppConns, code \in AppCodes :
       App_debug_state(c, code) /\ AppWireFrame

SpecAppWire == InitApp /\ [][NextAppWire]_vars

\* ------------------------------------------------- server.js (second server): scoring

\* countFaces(dice, mask).counts[f], for a mask given as the set of selected indices
S2_count(dice, sel, f) == Cardinality({i \in sel : dice[i] = f})

S2_isStraight(dice, sel)    == \A f \in Faces : S2_count(dice, sel, f) = 1
S2_isThreePairs(dice, sel)  == Cardinality({f \in Faces : S2_count(dice, sel, f) = 2}) = 3
S2_isTwoTriplets(dice, sel) == Cardinality({f \in Faces : S2_count(dice, sel, f) = 3}) = 2
S2_isFourPlusPair(dice, sel) ==
  /\ \E f \in Faces : S2_count(dice, sel, f) = 4
  /\ \E f \in Faces : S2_count(dice, sel, f) = 2

S2_isSpecial(dice, sel) ==
  \/ S2_isStraight(dice, sel) \/ S2_isThreePairs(dice, sel)
  \/ S2_isTwoTriplets(dice, sel) \/ S2_isFourPlusPair(dice, sel)

\* base * (1 << (c - 3)) for a face selected c >= 3 times, else 0
S2_kind(dice, sel, f) ==
  LET c == S2_count(dice, sel, f)
  IN IF c >= 3 THEN base(f) * 2 ^ (c - 3) ELSE 0

\* counts[f] after the triples loop
S2_rest(dice, sel, f) ==
  IF S2_count(dice, sel, f) >= 3 THEN 0 ELSE S2_count(dice, sel, f)

\* scoreSelection(dice, mask).score
S2_scoreSelection(dice, sel) ==
  IF sel = {} THEN 0
  ELSE IF Cardinality(sel) = 6 /\ S2_isStraight(dice, sel) THEN 1500
  ELSE IF Cardinality(sel) = 6 /\ S2_isThreePairs(dice, sel) THEN 1500
  ELSE IF Cardinality(sel) = 6 /\ S2_isTwoTriplets(dice, sel) THEN 2500
  ELSE IF Cardinality(sel) = 6 /\ S2_isFourPlusPair(dice, sel) THEN 1500
  ELSE S2_kind(dice, sel, 1) + S2_kind(dice, sel, 2) + S2_kind(dice, sel, 3)
       + S2_kind(dice, sel, 4) + S2_kind(dice, sel, 5) + S2_kind(dice, sel, 6)
       + S2_rest(dice, sel, 1) * 100 + S2_rest(dice, sel, 5) * 50

\* computeKeepable(dice, keptMask), as the set of keepable indices
S2_computeKeepable(dice, kept) ==
  LET unkept == {i \in Idx : ~kept[i]}
  IN IF Cardinality(unkept) = 6 /\ S2_isSpecial(dice, unkept) THEN Idx
     ELSE {i \in unkept : S2_count(dice, unkept, dice[i]) >= 3 \/ dice[i] \in {1, 5}}

\* ------------------------------------------------- server.js (second server): server

S2_targetScore == 10000
S2_entryMin    == 500

\* model bound: a keep that would take game.turnPoints above it is not explored
S2MaxTurnPoints == 2000

S2_makeFreshGame ==
  [status |-> "waiting", turnIndex |-> 0, dice |-> [i \in Idx |-> 1], kept |-> NoFalse,
   canRoll |-> FALSE, turnPoints |-> 0, winner |-> NoIndex]

\* (name || "").trim().slice(0, 20) || "Captain"; the names sent are short and trimmed
S2_clampName(name) == IF name = "" THEN "Captain" ELSE name

S2_getSeatBySid(room, sid) ==
  IF room.players[0].sid = sid THEN 0
  ELSE IF room.players[1].sid = sid THEN 1
  ELSE NoIndex

S2_offlineNamed(room, s, name) ==
  room.players[s].sid = NoSock /\ toLowerCase(room.players[s].name) = toLowerCase(name)

S2_getSeatByNameOffline(room, name) ==
  IF name = "" THEN NoIndex
  ELSE IF S2_offlineNamed(room, 0, name) THEN 0
  ELSE IF S2_offlineNamed(room, 1, name) THEN 1
  ELSE NoIndex

S2_startGameIfReady(room) ==
  IF room.players[0].sid # NoSock /\ room.players[1].sid # NoSock
     /\ room.game.status = "waiting"
  THEN [room EXCEPT !.game = [S2_makeFreshGame EXCEPT !.status = "playing",
                                                      !.canRoll = TRUE]]
  ELSE room

S2_isPlayersTurn(room, seat, sid) ==
  /\ room.game.status = "playing"
  /\ seat = room.game.turnIndex
  /\ room.players[seat].sid = sid

S2_endTurn(game) ==
  [game EXCEPT !.turnPoints = 0, !.kept = NoFalse, !.canRoll = TRUE,
               !.turnIndex = 1 - game.turnIndex]

S2_checkWin(room) ==
  IF room.players[0].score >= S2_targetScore THEN 0
  ELSE IF room.players[1].score >= S2_targetScore THEN 1
  ELSE NoIndex

\* what a handler emitted: a toast to the caller, a room:update broadcast to the room
S2_Emit(ev, c, toast, state) ==
  s2_last' = [ev |-> ev, conn |-> c, toast |-> toast, state |-> state]

S2_Reject(ev, c, toast) ==
  /\ S2_Emit(ev, c, toast, FALSE)
  /\ UNCHANGED <<s2_rooms, s2_conn>>

\* code is the fresh code randCode() returned
S2_room_create(c, code, name) ==
  /\ c \in s2_conn
  /\ code \notin DOMAIN s2_rooms
  /\ s2_rooms' =
       [k \in DOMAIN s2_rooms \cup {code} |->
          IF k = code
          THEN [players |-> [s \in Seats |->
                               IF s = 0
                               THEN [name |-> S2_clampName(name), sid |-> c, score |-> 0]
                               ELSE [name |-> "-", sid |-> NoSock, score |-> 0]],
                game |-> S2_makeFreshGame]
          ELSE s2_rooms[k]]
  /\ S2_Emit("room:create", c, FALSE, TRUE)
  /\ UNCHANGED s2_conn

\* room.players.findIndex(p => !p.sid)
S2_openSeat(room) ==
  IF room.players[0].sid = NoSock THEN 0
  ELSE IF room.players[1].sid = NoSock THEN 1
  ELSE NoIndex

S2_room_join(c, code, name) ==
  /\ c \in s2_conn
  /\ IF code \notin DOMAIN s2_rooms THEN S2_Reject("room:join", c, TRUE)
     ELSE LET room == s2_rooms[code]
              openSeat == S2_openSeat(room)
          IN IF openSeat = NoIndex THEN S2_Reject("room:join", c, TRUE)
             ELSE /\ s2_rooms' = [s2_rooms EXCEPT ![code] =
                       S2_startGameIfReady(
                         [room EXCEPT !.players[openSeat].name = S2_clampName(name),
                                      !.players[openSeat].sid = c])]
                  /\ S2_Emit("room:join", c, FALSE, TRUE)
                  /\ UNCHANGED s2_conn

S2_room_sync(c, code, name) ==
  /\ c \in s2_conn
  /\ IF code \notin DOMAIN s2_rooms THEN S2_Reject("room:sync", c, FALSE)
     ELSE LET room == s2_rooms[code]
              reclaimSeat == S2_getSeatByNameOffline(room, S2_clampName(name))
              seated == IF S2_getSeatBySid(room, c) = NoIndex /\ reclaimSeat # NoIndex
                        THEN [room EXCEPT !.players[reclaimSeat].sid = c]
                        ELSE room
          IN /\ s2_rooms' = [s2_rooms EXCEPT ![code] = S2_startGameIfReady(seated)]
             /\ S2_Emit("room:sync", c, FALSE, TRUE)
             /\ UNCHANGED s2_conn

S2_game_new(c, code) ==
  /\ c \in s2_conn
  /\ IF code \notin DOMAIN s2_rooms THEN S2_Reject("game:new", c, FALSE)
     ELSE LET room == s2_rooms[code]
          IN IF S2_getSeatBySid(room, c) = NoIndex THEN S2_Reject("game:new", c, TRUE)
             ELSE /\ s2_rooms' = [s2_rooms EXCEPT ![code] =
                       S2_startGameIfReady(
                         [room EXCEPT !.players[0].score = 0, !.players[1].score = 0,
                                      !.game = S2_makeFreshGame])]
                  /\ S2_Emit("game:new", c, FALSE, TRUE)
                  /\ UNCHANGED s2_conn

\* the guards shared by game:roll, game:keep and game:bank: "room", "seat", "turn" name
\* the check that fails, "" that all pass
S2_refusal(c, code) ==
  IF code \notin DOMAIN s2_rooms THEN "room"
  ELSE IF S2_getSeatBySid(s2_rooms[code], c) = NoIndex THEN "seat"
  ELSE IF ~S2_isPlayersTurn(s2_rooms[code], S2_getSeatBySid(s2_rooms[code], c), c)
       THEN "turn"
  ELSE ""

S2_game_roll(c, code, thrown) ==
  /\ c \in s2_conn
  /\ IF S2_refusal(c, code) # "" THEN S2_Reject("game:roll", c, S2_refusal(c, code) # "room")
     ELSE LET game == s2_rooms[code].game
          IN IF ~game.canRoll THEN S2_Reject("game:roll", c, TRUE)
             ELSE LET rolled == [game EXCEPT
                                   !.dice = [i \in Idx |-> IF game.kept[i] THEN game.dice[i]
                                                           ELSE thrown[i]],
                                   !.canRoll = FALSE]
                      after == IF S2_computeKeepable(rolled.dice, rolled.kept) = {}
                               THEN S2_endTurn(rolled)
                               ELSE rolled
                  IN /\ s2_rooms' = [s2_rooms EXCEPT ![code].game = after]
                     /\ S2_Emit("game:roll", c, FALSE, TRUE)
                     /\ UNCHANGED s2_conn

\* select is the array sent, a sequence of booleans; select[i] of the code is select[i + 1]
S2_selected(select) == {i \in Idx : select[i + 1]}

S2_game_keep(c, code, select) ==
  /\ c \in s2_conn
  /\ IF S2_refusal(c, code) # "" THEN S2_Reject("game:keep", c, S2_refusal(c, code) # "room")
     ELSE LET game == s2_rooms[code].game
          IN IF Len(select) # 6 THEN S2_Reject("game:keep", c, TRUE)
             ELSE LET sel == S2_selected(select)
                      score == S2_scoreSelection(game.dice, sel)
                      kept == [i \in Idx |-> game.kept[i] \/ i \in sel]
                  IN IF \E i \in sel : game.kept[i] THEN S2_Reject("game:keep", c, TRUE)
                     ELSE IF sel = {} THEN S2_Reject("game:keep", c, TRUE)
                     ELSE IF ~(sel \subseteq S2_computeKeepable(game.dice, game.kept))
                          THEN S2_Reject("game:keep", c, TRUE)
                     ELSE IF score <= 0 THEN S2_Reject("game:keep", c, TRUE)
                     ELSE /\ game.turnPoints + score <= S2MaxTurnPoints
                          /\ s2_rooms' = [s2_rooms EXCEPT ![code].game =
                               [game EXCEPT
                                  !.kept = IF \A i \in Idx : kept[i] THEN NoFalse ELSE kept,
                                  !.turnPoints = @ + score,
                                  !.canRoll = TRUE]]
                          /\ S2_Emit("game:keep", c, FALSE, TRUE)
                          /\ UNCHANGED s2_conn

\* the entry minimum left out
S2_belowEntryMin_Never(room, seat) == FALSE
\* player.score === 0 && room.game.turnPoints < room.game.entryMin
S2_belowEntryMin(room, seat) ==
  room.players[seat].score = 0 /\ room.game.turnPoints < S2_entryMin

S2_game_bank(c, code) ==
  /\ c \in s2_conn
  /\ IF S2_refusal(c, code) # "" THEN S2_Reject("game:bank", c, S2_refusal(c, code) # "room")
     ELSE LET room == s2_rooms[code]
              seat == S2_getSeatBySid(room, c)
          IN IF room.game.turnPoints <= 0 THEN S2_Reject("game:bank", c, TRUE)
             ELSE IF S2_belowEntryMin(room, seat) THEN S2_Reject("game:bank", c, TRUE)
             ELSE LET paid == [room EXCEPT !.players[seat].score = @ + room.game.turnPoints]
                      winSeat == S2_checkWin(paid)
                      after == IF winSeat # NoIndex
                               THEN [paid EXCEPT !.game.status = "over",
                                                 !.game.winner = winSeat]
                               ELSE [paid EXCEPT !.game = S2_endTurn(paid.game)]
                  IN /\ s2_rooms' = [s2_rooms EXCEPT ![code] = after]
                     /\ S2_Emit("game:bank", c, FALSE, TRUE)
                     /\ UNCHANGED s2_conn

S2_disconnect(c) ==
  /\ c \in s2_conn
  /\ s2_conn' = s2_conn \ {c}
  /\ s2_rooms' =
       [code \in DOMAIN s2_rooms |->
          LET room == s2_rooms[code]
              seat == S2_getSeatBySid(room, c)
          IN IF seat # NoIndex THEN [room EXCEPT !.players[seat].sid = NoSock]
             ELSE room]
  /\ S2_Emit("disconnect", c, FALSE,
             \E code \in DOMAIN s2_rooms : S2_getSeatBySid(s2_rooms[code], c) # NoIndex)

\* ---- specification: the second server of server.js, two connections at one table

S2Conns == {1, 2}
S2Codes == {"R1"}

\* the name each connection signs with
S2NameOf(c) == IF c = 1 THEN {"Ann"} ELSE {"Bea"}

\* the names sent with room:sync
S2SyncNames == {"Ann", "Bea"}

\* the throws explored: three 1s with three 2s, and a throw with no scoring die
S2Throws == { <<1, 1, 1, 2, 2, 2>>, <<2, 2, 3, 3, 4, 6>> }

\* the arrays sent with game:keep: dice 0-2, dice 0-4, none, and an array of five
S2Selects ==
  { <<TRUE, TRUE, TRUE, FALSE, FALSE, FALSE>>, <<TRUE, TRUE, TRUE, TRUE, TRUE, FALSE>>,
    <<FALSE, FALSE, FALSE, FALSE, FALSE, FALSE>>, <<TRUE, TRUE, TRUE, FALSE, FALSE>> }

InitS2 ==
  /\ sc_in = <<>> /\ sc_out = ScNone
  /\ p2_rooms = NoRooms /\ p2_sock = P2Sock0 /\ p2_last = Last0
  /\ app_rooms = NoRooms /\ app_conn = {} /\ app_last = Last0
  /\ s2_rooms = NoRooms /\ s2_conn = S2Conns /\ s2_last = Last0
  /\ p1_rooms = NoRooms /\ p1_conn = {} /\ p1_last = Last0
  /\ s1_rooms = NoRooms /\ s1_sock = S1Sock0 /\ s1_last = Last0
  /\ app_out = App_noPayload

S2Frame == UNCHANGED <<scVars, p2Vars, appVars, p1Vars, s1Vars>>

NextS2 ==
  \/ \E c \in S2Conns : \E code \in S2Codes, name \in S2NameOf(c) :
       S2_room_create(c, code, name) /\ S2Frame
  \/ \E c \in S2Conns : \E code \in S2Codes, name \in S2NameOf(c) :
       S2_room_join(c, code, name) /\ S2Frame
  \/ \E c \in S2Conns, code \in S2Codes, name \in S2SyncNames :
       S2_room_sync(c, code, name) /\ S2Frame
  \/ \E c \in S2Conns, code \in S2Codes : S2_game_new(c, code) /\ S2Frame
  \/ \E c \in S2Conns, code \in S2Codes, t \in S2Throws :
       S2_game_roll(c, code, Thrown(t)) /\ S2Frame
  \/ \E c \in S2Conns, code \in S2Codes, sel \in S2Selects :
       S2_game_keep(c, code, sel) /\ S2Frame
  \/ \E c \in S2Conns, code \in S2Codes : S2_game_bank(c, code) /\ S2Frame
  \/ \E c \in S2Conns : S2_disconnect(c) /\ S2Frame

SpecS2 == InitS2 /\ [][NextS2]_vars

\* ---- specification: the second server of server.js with keeps below and at the entry
\* minimum

\* the throws explored: three 2s (200) and three 5s (500), each with no other scoring die
S2EntryThrows == { <<2, 2, 2, 3, 3, 4>>, <<5, 5, 5, 3, 3, 4>> }

\* the arrays sent with game:keep: dice 0-2, and dice 3-5
S2EntrySelects ==
  { <<TRUE, TRUE, TRUE, FALSE, FALSE, FALSE>>, <<FALSE, FALSE, FALSE, TRUE, TRUE, TRUE>> }

\* model bound: a bank that would take a score above it is not explored
S2EntryMaxScore == 1400

NextS2Entry ==
  \/ \E c \in S2Conns : \E code \in S2Codes, name \in S2NameOf(c) :
       S2_room_create(c, code, name) /\ S2Frame
  \/ \E c \in S2Conns : \E code \in S2Codes, name \in S2NameOf(c) :
       S2_room_join(c, code, name) /\ S2Frame
  \/ \E c \in S2Conns, code \in S2Codes : S2_game_new(c, code) /\ S2Frame
  \/ \E c \in S2Conns, code \in S2Codes, t \in S2EntryThrows :
       S2_game_roll(c, code, Thrown(t)) /\ S2Frame
  \/ \E c \in S2Conns, code \in S2Codes, sel \in S2EntrySelects :
       S2_game_keep(c, code, sel) /\ S2Frame
  \/ \E c \in S2Conns, code \in S2Codes :
       /\ S2_game_bank(c, code) /\ S2Frame
       /\ \A r \in DOMAIN s2_rooms', s \in Seats :
            s2_rooms'[r].players[s].score <= S2EntryMaxScore
  \/ \E c \in S2Conns : S2_disconnect(c) /\ S2Frame

SpecS2Entry == InitS2 /\ [][NextS2Entry]_vars

\* ------------------------------------------------- part_001: server

\* model bound: a keep that would take game.turnPoints above it is not explored
P1MaxTurnPoints == 1500

P1_winningScore == 10000

\* a seat of room.players that holds null
P1_null == [name |-> "", sid |-> NoSock, online |-> FALSE]

\* lastAction is a text shown to the players; no handler reads it
P1_newGameState ==
  [stage |-> "WAITING", scores |-> [s \in Seats |-> 0], turnIndex |-> 0,
   dice |-> [i \in Idx |-> 0], kept |-> NoFalse, canRoll |-> FALSE, canKeep |-> FALSE,
   canBank |-> FALSE, turnPoints |-> 0, winner |-> NoIndex]

\* room.players[room.game.turnIndex]?.sid || null
P1_currentPlayerSid(room) == room.players[room.game.turnIndex].sid

P1_isMyTurn(room, c) == P1_currentPlayerSid(room) = c

P1_ensureInProgress(room) ==
  IF room.players[0].name # "" /\ room.players[1].name # "" /\ room.game.stage = "WAITING"
  THEN [room EXCEPT !.game.stage = "IN_PROGRESS", !.game.turnIndex = 0,
                    !.game.turnPoints = 0, !.game.kept = NoFalse,
                    !.game.dice = [i \in Idx |-> 0], !.game.canRoll = TRUE,
                    !.game.canKeep = FALSE, !.game.canBank = FALSE]
  ELSE room

P1_endTurn_KeepPoints(g) ==
  [g EXCEPT !.kept = NoFalse, !.dice = [i \in Idx |-> 0],
            !.turnIndex = IF g.turnIndex = 0 THEN 1 ELSE 0,
            !.canRoll = TRUE, !.canKeep = FALSE, !.canBank = FALSE]
P1_endTurn(g) ==
  [g EXCEPT !.turnPoints = 0, !.kept = NoFalse, !.dice = [i \in Idx |-> 0],
            !.turnIndex = IF g.turnIndex = 0 THEN 1 ELSE 0,
            !.canRoll = TRUE, !.canKeep = FALSE, !.canBank = FALSE]

\* what a handler emitted: an error:toast or error:modal to the caller alone, a
\* room:update broadcast to the room
P1_Emit(ev, c, toast, state) ==
  p1_last' = [ev |-> ev, conn |-> c, toast |-> toast, state |-> state]

P1_Reject(ev, c, toast) ==
  /\ P1_Emit(ev, c, toast, FALSE)
  /\ UNCHANGED <<p1_rooms, p1_conn>>

\* (name || "").trim().slice(0, 20) || "Captain"; the names sent are short and trimmed
P1_cleanName(name) == IF name = "" THEN "Captain" ELSE name

\* code is the fresh code makeCode(5) returned
P1_room_create(c, code, name) ==
  /\ c \in p1_conn
  /\ code \notin DOMAIN p1_rooms
  /\ p1_rooms' =
       [k \in DOMAIN p1_rooms \cup {code} |->
          IF k = code
          THEN [players |-> [s \in Seats |->
                               IF s = 0
                               THEN [name |-> P1_cleanName(name), sid |-> c, online |-> TRUE]
                               ELSE P1_null],
                game |-> P1_newGameState]
          ELSE p1_rooms[k]]
  /\ P1_Emit("room:create", c, FALSE, TRUE)
  /\ UNCHANGED p1_conn

\* the seat the reclaim loop of room:join binds: the first seat that is held, has no
\* sid and whose name equals cleanName without regard to case; NoIndex when none
P1_reclaimSeat_Last(room, cleanName) ==
  LET match(i) == /\ room.players[i] # P1_null
                  /\ room.players[i].sid = NoSock
                  /\ toLowerCase(room.players[i].name) = toLowerCase(cleanName)
  IN IF match(1) THEN 1 ELSE IF match(0) THEN 0 ELSE NoIndex
P1_reclaimSeat(room, cleanName) ==
  LET match(i) == /\ room.players[i] # P1_null
                  /\ room.players[i].sid = NoSock
                  /\ toLowerCase(room.players[i].name) = toLowerCase(cleanName)
  IN IF match(0) THEN 0 ELSE IF match(1) THEN 1 ELSE NoIndex

P1_room_join(c, code, name) ==
  /\ c \in p1_conn
  /\ IF code \notin DOMAIN p1_rooms THEN P1_Reject("room:join", c, TRUE)
     ELSE LET room == p1_rooms[code]
              cleanName == P1_cleanName(name)
              i == P1_reclaimSeat(room, cleanName)
          IN IF i # NoIndex
             THEN /\ p1_rooms' =
                       [p1_rooms EXCEPT ![code] =
                          P1_ensureInProgress([room EXCEPT !.players[i].sid = c,
                                                           !.players[i].online = TRUE])]
                  /\ P1_Emit("room:join", c, FALSE, TRUE)
                  /\ UNCHANGED p1_conn
             ELSE IF room.players[1] = P1_null
             THEN /\ p1_rooms' =
                       [p1_rooms EXCEPT ![code] =
                          P1_ensureInProgress(
                            [room EXCEPT !.players[1] =
                               [name |-> cleanName, sid |-> c, online |-> TRUE]])]
                  /\ P1_Emit("room:join", c, FALSE, TRUE)
                  /\ UNCHANGED p1_conn
             ELSE P1_Reject("room:join", c, TRUE)

P1_game_new(c, code) ==
  /\ c \in p1_conn
  /\ IF code \notin DOMAIN p1_rooms THEN P1_Reject("game:new", c, FALSE)
     ELSE LET room == p1_rooms[code]
          IN IF \A s \in Seats : room.players[s].sid # c
             THEN P1_Reject("game:new", c, FALSE)
             ELSE /\ p1_rooms' =
                       [p1_rooms EXCEPT ![code] =
                          P1_ensureInProgress([room EXCEPT !.game = P1_newGameState])]
                  /\ P1_Emit("game:new", c, FALSE, TRUE)
                  /\ UNCHANGED p1_conn

\* the guard shared by turn:roll, turn:keep and turn:bank: they return without a word
P1_noGame(code) ==
  \/ code \notin DOMAIN p1_rooms
  \/ p1_rooms[code].game.stage # "IN_PROGRESS"

P1_unkept(g) == {i \in Idx : ~g.kept[i]}

\* canBank set whatever the turn points
P1_afterRoll_Bank(g) ==
  [g EXCEPT !.canRoll = FALSE, !.canKeep = TRUE, !.canBank = TRUE]
\* the flags after a roll with a scoring die: keep next, bank only with points in hand
P1_afterRoll(g) ==
  [g EXCEPT !.canRoll = FALSE, !.canKeep = TRUE, !.canBank = g.turnPoints > 0]

P1_turn_roll(c, code, thrown) ==
  /\ c \in p1_conn
  /\ IF P1_noGame(code) THEN P1_Reject("turn:roll", c, FALSE)
     ELSE LET room == p1_rooms[code]
              g == room.game
          IN IF ~P1_isMyTurn(room, c) THEN P1_Reject("turn:roll", c, TRUE)
             ELSE IF ~g.canRoll THEN P1_Reject("turn:roll", c, TRUE)
             ELSE LET rolled == [g EXCEPT !.dice = [i \in Idx |-> IF g.kept[i] THEN g.dice[i]
                                                                  ELSE thrown[i]]]
                      unkeptValues == At(rolled.dice, P1_unkept(rolled))
                      hasScoring == P1_evaluateRoll(unkeptValues) # {}
                      after == IF ~hasScoring THEN P1_endTurn(rolled)
                               ELSE P1_afterRoll(rolled)
                  IN /\ p1_rooms' = [p1_rooms EXCEPT ![code].game = after]
                     /\ P1_Emit("turn:roll", c, FALSE, TRUE)
                     /\ UNCHANGED p1_conn

\* Array.from(new Set(...)) of the integers 0..5 among selected
P1_uniq(selected) == {selected[k] : k \in DOMAIN selected} \cap Idx

P1_turn_keep(c, code, selected) ==
  /\ c \in p1_conn
  /\ IF P1_noGame(code) THEN P1_Reject("turn:keep", c, FALSE)
     ELSE LET room == p1_rooms[code]
              g == room.game
              uniq == P1_uniq(selected)
              scored == P1_scoreSelection(At(g.dice, uniq))
          IN IF ~P1_isMyTurn(room, c) THEN P1_Reject("turn:keep", c, TRUE)
             ELSE IF ~g.canKeep THEN P1_Reject("turn:keep", c, TRUE)
             ELSE IF uniq = {} THEN P1_Reject("turn:keep", c, TRUE)
             ELSE IF \E idx \in uniq : g.kept[idx] THEN P1_Reject("turn:keep", c, TRUE)
             ELSE IF ~scored.ok THEN P1_Reject("turn:keep", c, TRUE)
             ELSE LET kept == [i \in Idx |-> g.kept[i] \/ i \in uniq]
                      allKept == \A i \in Idx : kept[i]
                      after == [g EXCEPT
                                  !.kept = IF allKept THEN NoFalse ELSE kept,
                                  !.dice = IF allKept THEN [i \in Idx |-> 0] ELSE g.dice,
                                  !.turnPoints = g.turnPoints + scored.points,
                                  !.canRoll = TRUE, !.canKeep = FALSE, !.canBank = TRUE]
                  IN /\ after.turnPoints <= P1MaxTurnPoints
                     /\ p1_rooms' = [p1_rooms EXCEPT ![code].game = after]
                     /\ P1_Emit("turn:keep", c, FALSE, TRUE)
                     /\ UNCHANGED p1_conn

P1_turn_bank(c, code) ==
  /\ c \in p1_conn
  /\ IF P1_noGame(code) THEN P1_Reject("turn:bank", c, FALSE)
     ELSE LET room == p1_rooms[code]
              g == room.game
              t == g.turnIndex
          IN IF ~P1_isMyTurn(room, c) THEN P1_Reject("turn:bank", c, TRUE)
             ELSE IF ~g.canBank THEN P1_Reject("turn:bank", c, TRUE)
             ELSE IF g.turnPoints <= 0 THEN P1_Reject("turn:bank", c, TRUE)
             ELSE LET paid == [g EXCEPT !.scores[t] = @ + g.turnPoints]
                      after == IF paid.scores[t] >= P1_winningScore
                               THEN [paid EXCEPT !.stage = "GAME_OVER", !.winner = t]
                               ELSE P1_endTurn(paid)
                  IN /\ p1_rooms' = [p1_rooms EXCEPT ![code].game = after]
                     /\ P1_Emit("turn:bank", c, FALSE, TRUE)
                     /\ UNCHANGED p1_conn

P1_room_sync(c, code) ==
  /\ c \in p1_conn
  /\ IF code \notin DOMAIN p1_rooms THEN P1_Reject("room:sync", c, FALSE)
     ELSE /\ p1_rooms' = [p1_rooms EXCEPT ![code] = P1_ensureInProgress(p1_rooms[code])]
          /\ P1_Emit("room:sync", c, FALSE, TRUE)
          /\ UNCHANGED p1_conn

P1_disconnect(c) ==
  /\ c \in p1_conn
  /\ p1_conn' = p1_conn \ {c}
  /\ p1_rooms' =
       [code \in DOMAIN p1_rooms |->
          [p1_rooms[code] EXCEPT
             !.players = [s \in Seats |->
                            IF @[s] # P1_null /\ @[s].sid = c
                            THEN [@[s] EXCEPT !.sid = NoSock, !.online = FALSE]
                            ELSE @[s]]]]
  /\ P1_Emit("disconnect", c, FALSE,
             \E code \in DOMAIN p1_rooms, s \in Seats : p1_rooms[code].players[s].sid = c)

\* ---- specification: the part_001 server, two connections playing at one table

P1AllConns == {1, 2, 3}
P1Conns == {1, 2}
P1Codes == {"R1"}
P1NameOf(c) == IF c = 1 THEN {"Ann"} ELSE {"Bea"}

\* the faces rollDie() gives the six dice: a straight, five 5s with a 2, a throw
\* without any scoring die
P1Throws == { <<1, 2, 3, 4, 5, 6>>, <<5, 5, 5, 5, 5, 2>>, <<2, 2, 3, 3, 4, 6>> }

\* the index lists sent with turn:keep
P1Keeps == { <<0, 1, 2, 3, 4, 5>>, <<0, 1, 2, 3, 4>>, <<>> }

InitP1 ==
  /\ sc_in = <<>> /\ sc_out = ScNone
  /\ p2_rooms = NoRooms /\ p2_sock = P2Sock0 /\ p2_last = Last0
  /\ app_rooms = NoRooms /\ app_conn = {} /\ app_last = Last0
  /\ s2_rooms = NoRooms /\ s2_conn = {} /\ s2_last = Last0
  /\ p1_rooms = NoRooms /\ p1_conn = P1AllConns /\ p1_last = Last0
  /\ s1_rooms = NoRooms /\ s1_sock = S1Sock0 /\ s1_last = Last0
  /\ app_out = App_noPayload

P1Frame == UNCHANGED <<scVars, p2Vars, appVars, s2Vars, s1Vars>>

NextP1 ==
  \/ \E c \in P1Conns : \E code \in P1Codes, name \in P1NameOf(c) :
       P1_room_create(c, code, name) /\ P1Frame
  \/ \E c \in P1Conns : \E code \in P1Codes, name \in P1NameOf(c) :
       P1_room_join(c, code, name) /\ P1Frame
  \/ \E c \in P1Conns, code \in P1Codes : P1_game_new(c, code) /\ P1Frame
  \/ \E c \in P1Conns, code \in P1Codes, t \in P1Throws :
       P1_turn_roll(c, code, Thrown(t)) /\ P1Frame
  \/ \E c \in P1Conns, code \in P1Codes, k \in P1Keeps :
       P1_turn_keep(c, code, k) /\ P1Frame
  \/ \E c \in P1Conns, code \in P1Codes : P1_turn_bank(c, code) /\ P1Frame
  \/ \E c \in P1Conns, code \in P1Codes : P1_room_sync(c, code) /\ P1Frame
  \/ \E c \in P1Conns : P1_disconnect(c) /\ P1Frame

SpecP1 == InitP1 /\ [][NextP1]_vars

\* ---- specification: the part_001 lobby, three connections (one of them signing
\* with either name, one with a name that differs from the first only in case) that
\* create, join, sync, restart and leave one table

P1LobbyNameOf(c) == IF c = 1 THEN {"Ann"} ELSE IF c = 2 THEN {"Bea", "Ann"} ELSE {"ann"}

NextP1Lobby ==
  \/ \E c \in P1AllConns : \E code \in P1Codes, name \in P1LobbyNameOf(c) :
       P1_room_create(c, code, name) /\ P1Frame
  \/ \E c \in P1AllConns : \E code \in P1Codes, name \in P1LobbyNameOf(c) :
       P1_room_join(c, code, name) /\ P1Frame
  \/ \E c \in P1AllConns, code \in P1Codes : P1_game_new(c, code) /\ P1Frame
  \/ \E c \in P1AllConns, code \in P1Codes : P1_room_sync(c, code) /\ P1Frame
  \/ \E c \in P1AllConns : P1_disconnect(c) /\ P1Frame

SpecP1Lobby == InitP1 /\ [][NextP1Lobby]_vars

\* ------------------------------------------------- server.js (first server)

\* model bounds: a keep that would take turnPoints above S1MaxTurnPoints, and a bank
\* that would take a score above S1MaxScore, are not explored
S1MaxTurnPoints == 200
S1MaxScore == 100

S1_winScore == 10000

S1_newRoom ==
  [players |-> [s \in Seats |-> [name |-> "-", clientId |-> Null, socketId |-> NoSock,
                                 score |-> 0, online |-> FALSE]],
   activeSeat |-> 0, phase |-> "lobby", turnPoints |-> 0,
   dice |-> [i \in Idx |-> 1], held |-> NoFalse, canRoll |-> FALSE]

\* room.players.find(p => p.clientId === clientId): its seat, NoSeat for null
S1_seatForClient(room, clientId) ==
  IF room.players[0].clientId = clientId THEN 0
  ELSE IF room.players[1].clientId = clientId THEN 1
  ELSE NoSeat

\* room.players.find(p => !p.clientId): its seat, NoSeat for null
S1_firstOpenSeat(room) ==
  IF room.players[0].clientId = Null THEN 0
  ELSE IF room.players[1].clientId = Null THEN 1
  ELSE NoSeat

S1_bothPlayersJoined(room) == \A s \in Seats : room.players[s].clientId # Null

S1_resetTurn(room, startingSeat) ==
  [room EXCEPT !.activeSeat = startingSeat,
               !.phase = IF S1_bothPlayersJoined(room) THEN "turn" ELSE "lobby",
               !.turnPoints = 0, !.dice = [i \in Idx |-> 1], !.held = NoFalse,
               !.canRoll = S1_bothPlayersJoined(room)]

S1_hardResetGame(room) ==
  S1_resetTurn([room EXCEPT !.players[0].score = 0, !.players[1].score = 0,
                            !.activeSeat = 0], 0)

\* scoreKeptDice(values).points
S1_scoreKeptDice(values) ==
  LET n == Len(values)
      set(v) == IF Count(values, v) >= 6 THEN 3000
                ELSE IF Count(values, v) = 5 THEN 2000
                ELSE IF Count(values, v) = 4 THEN 1000
                ELSE IF Count(values, v) = 3 THEN base(v)
                ELSE 0
      left(v) == IF Count(values, v) >= 3 THEN 0 ELSE Count(values, v)
  IN IF n = 0 THEN 0
     ELSE IF n = 6 /\ \A v \in Faces : Count(values, v) = 1 THEN 1500
     ELSE IF n = 6 /\ Cardinality({v \in Faces : Count(values, v) = 2}) = 3 THEN 1500
     ELSE IF n = 6 /\ Cardinality({v \in Faces : Count(values, v) = 3}) = 2 THEN 2500
     ELSE IF \E v \in {2, 3, 4, 6} : left(v) > 0 THEN 0
     ELSE set(1) + set(2) + set(3) + set(4) + set(5) + set(6)
          + left(1) * 100 + left(5) * 50

\* rollDice: only the dice that are not held take the faces thrown
S1_rollDice(room, thrown) ==
  [i \in Idx |-> IF room.held[i] THEN room.dice[i] ELSE thrown[i]]

S1_availableDiceValues(room) == At(room.dice, {i \in Idx : ~room.held[i]})

S1_isFarkle(room) ==
  LET vals == S1_availableDiceValues(room)
  IN /\ Len(vals) # 0
     /\ Count(vals, 1) = 0 /\ Count(vals, 5) = 0
     /\ \A v \in Faces : Count(vals, v) < 3
     /\ (Len(vals) = 6)
        => /\ ~(\A v \in Faces : Count(vals, v) = 1)
           /\ Cardinality({v \in Faces : Count(vals, v) = 2}) # 3
           /\ Cardinality({v \in Faces : Count(vals, v) = 3}) # 2

\* hotDiceReset; the handler sets canRoll itself afterwards
S1_hotDiceReset(room) ==
  IF \A i \in Idx : room.held[i] THEN [room EXCEPT !.held = NoFalse, !.canRoll = TRUE]
  ELSE room

\* what a handler emitted: a toast to the caller alone, a room:update broadcast
S1_Emit(ev, c, toast, state) ==
  s1_last' = [ev |-> ev, conn |-> c, toast |-> toast, state |-> state]

S1_Reject(ev, c, toast) ==
  /\ S1_Emit(ev, c, toast, FALSE)
  /\ UNCHANGED <<s1_rooms, s1_sock>>

\* socket.data.roomCode names a room of the Map
S1_hasRoom(c) == s1_sock[c].roomCode \in DOMAIN s1_rooms

\* code is the code makeCode() drew for newRoom(): five random characters, not compared
\* with the keys of the Map; rooms.set(room.code, room) stores the room under it
S1_room_create(c, code, name, clientId) ==
  /\ s1_sock[c].up
  /\ LET seated == [S1_newRoom EXCEPT !.players[0].name = name,
                                      !.players[0].clientId = clientId,
                                      !.players[0].socketId = c,
                                      !.players[0].online = TRUE]
     IN s1_rooms' = [k \in DOMAIN s1_rooms \cup {code} |->
                       IF k = code THEN S1_resetTurn(seated, 0) ELSE s1_rooms[k]]
  /\ s1_sock' = [s1_sock EXCEPT ![c].roomCode = code, ![c].clientId = clientId,
                                ![c].seat = 0]
  /\ S1_Emit("room:create", c, FALSE, TRUE)

\* the tail of room:join: with both players joined the turn phase is (re)started
S1_startTurnPhase(room) ==
  IF S1_bothPlayersJoined(room)
  THEN [room EXCEPT !.phase = "turn", !.activeSeat = 0, !.turnPoints = 0,
                    !.held = NoFalse, !.canRoll = TRUE]
  ELSE room

S1_room_join(c, code, name, clientId) ==
  /\ s1_sock[c].up
  /\ IF code \notin DOMAIN s1_rooms THEN S1_Reject("room:join", c, TRUE)
     ELSE LET room == s1_rooms[code]
              mine == S1_seatForClient(room, clientId)
              seat == IF mine # NoSeat THEN mine ELSE S1_firstOpenSeat(room)
          IN IF seat = NoSeat THEN S1_Reject("room:join", c, TRUE)
             ELSE LET taken == IF mine # NoSeat THEN room
                               ELSE [room EXCEPT !.players[seat].clientId = clientId,
                                                 !.players[seat].name = name]
                      bound == [taken EXCEPT !.players[seat].socketId = c,
                                             !.players[seat].online = TRUE]
                  IN /\ s1_rooms' = [s1_rooms EXCEPT ![code] = S1_startTurnPhase(bound)]
                     /\ s1_sock' = [s1_sock EXCEPT ![c].roomCode = code,
                                                   ![c].clientId = clientId,
                                                   ![c].seat = seat]
                     /\ S1_Emit("room:join", c, FALSE, TRUE)

S1_game_new(c) ==
  /\ s1_sock[c].up
  /\ IF ~S1_hasRoom(c) THEN S1_Reject("game:new", c, FALSE)
     ELSE /\ s1_rooms' = [s1_rooms EXCEPT ![s1_sock[c].roomCode] = S1_hardResetGame(@)]
          /\ S1_Emit("game:new", c, FALSE, TRUE)
          /\ UNCHANGED s1_sock

S1_turn_roll(c, thrown) ==
  /\ s1_sock[c].up
  /\ IF ~S1_hasRoom(c) THEN S1_Reject("turn:roll", c, FALSE)
     ELSE LET code == s1_sock[c].roomCode
              room == s1_rooms[code]
          IN IF ~S1_bothPlayersJoined(room) THEN S1_Reject("turn:roll", c, TRUE)
             ELSE IF room.phase # "turn" THEN S1_Reject("turn:roll", c, TRUE)
             ELSE IF s1_sock[c].seat # room.activeSeat THEN S1_Reject("turn:roll", c, TRUE)
             ELSE IF ~room.canRoll THEN S1_Reject("turn:roll", c, TRUE)
             ELSE LET rolled == [room EXCEPT !.dice = S1_rollDice(room, thrown),
                                             !.canRoll = FALSE]
                      after == IF S1_isFarkle(rolled)
                               THEN [rolled EXCEPT !.turnPoints = 0, !.held = NoFalse,
                                        !.canRoll = TRUE,
                                        !.activeSeat = IF rolled.activeSeat = 0 THEN 1 ELSE 0]
                               ELSE rolled
                  IN /\ s1_rooms' = [s1_rooms EXCEPT ![code] = after]
                     /\ S1_Emit("turn:roll", c, FALSE, TRUE)
                     /\ UNCHANGED s1_sock

\* idx is a number; the handler returns without a word on every refusal
S1_turn_toggleHold(c, idx) ==
  /\ s1_sock[c].up
  /\ IF ~S1_hasRoom(c) THEN S1_Reject("turn:toggleHold", c, FALSE)
     ELSE LET code == s1_sock[c].roomCode
              room == s1_rooms[code]
          IN IF s1_sock[c].seat # room.activeSeat THEN S1_Reject("turn:toggleHold", c, FALSE)
             ELSE IF room.phase # "turn" THEN S1_Reject("turn:toggleHold", c, FALSE)
             ELSE IF idx < 0 \/ idx > 5 THEN S1_Reject("turn:toggleHold", c, FALSE)
             ELSE IF room.canRoll THEN S1_Reject("turn:toggleHold", c, FALSE)
             ELSE /\ s1_rooms' = [s1_rooms EXCEPT ![code].held[idx] = ~room.held[idx]]
                  /\ S1_Emit("turn:toggleHold", c, FALSE, TRUE)
                  /\ UNCHANGED s1_sock

S1_turn_keep(c) ==
  /\ s1_sock[c].up
  /\ IF ~S1_hasRoom(c) THEN S1_Reject("turn:keep", c, FALSE)
     ELSE LET code == s1_sock[c].roomCode
              room == s1_rooms[code]
              selectedIdx == {i \in Idx : room.held[i]}
              points == S1_scoreKeptDice(At(room.dice, selectedIdx))
          IN IF s1_sock[c].seat # room.activeSeat THEN S1_Reject("turn:keep", c, TRUE)
             ELSE IF room.phase # "turn" THEN S1_Reject("turn:keep", c, FALSE)
             ELSE IF room.canRoll THEN S1_Reject("turn:keep", c, TRUE)
             ELSE IF selectedIdx = {} THEN S1_Reject("turn:keep", c, TRUE)
             ELSE IF points <= 0 THEN S1_Reject("turn:keep", c, TRUE)
             ELSE LET scored == [room EXCEPT !.turnPoints = @ + points]
                      after == [S1_hotDiceReset(scored) EXCEPT !.canRoll = TRUE]
                  IN /\ after.turnPoints <= S1MaxTurnPoints
                     /\ s1_rooms' = [s1_rooms EXCEPT ![code] = after]
                     /\ S1_Emit("turn:keep", c, FALSE, TRUE)
                     /\ UNCHANGED s1_sock

S1_turn_bank(c) ==
  /\ s1_sock[c].up
  /\ IF ~S1_hasRoom(c) THEN S1_Reject("turn:bank", c, FALSE)
     ELSE LET code == s1_sock[c].roomCode
              room == s1_rooms[code]
              seat == room.activeSeat
          IN IF s1_sock[c].seat # room.activeSeat THEN S1_Reject("turn:bank", c, TRUE)
             ELSE IF room.phase # "turn" THEN S1_Reject("turn:bank", c, FALSE)
             ELSE LET paid == [room EXCEPT !.players[seat].score = @ + room.turnPoints,
                                           !.turnPoints = 0, !.held = NoFalse,
                                           !.canRoll = TRUE]
                      after == IF paid.players[seat].score >= S1_winScore THEN paid
                               ELSE [paid EXCEPT !.activeSeat = IF seat = 0 THEN 1 ELSE 0]
                  IN /\ paid.players[seat].score <= S1MaxScore
                     /\ s1_rooms' = [s1_rooms EXCEPT ![code] = after]
                     /\ S1_Emit("turn:bank", c, FALSE, TRUE)
                     /\ UNCHANGED s1_sock

\* the check on the socket left out
S1_boundTo_Any(room, seat, c) == TRUE
\* seatObj.socketId === socket.id
S1_boundTo(room, seat, c) == room.players[seat].socketId = c

S1_disconnect(c) ==
  /\ s1_sock[c].up
  /\ s1_sock' = [s1_sock EXCEPT ![c].up = FALSE]
  /\ IF ~S1_hasRoom(c) \/ s1_sock[c].clientId = Null
     THEN S1_Emit("disconnect", c, FALSE, FALSE) /\ UNCHANGED s1_rooms
     ELSE LET code == s1_sock[c].roomCode
              room == s1_rooms[code]
              seat == S1_seatForClient(room, s1_sock[c].clientId)
          IN IF seat # NoSeat /\ S1_boundTo(room, seat, c)
             THEN /\ s1_rooms' = [s1_rooms EXCEPT ![code].players[seat].online = FALSE,
                                                  ![code].players[seat].socketId = NoSock]
                  /\ S1_Emit("disconnect", c, FALSE, TRUE)
             ELSE S1_Emit("disconnect", c, FALSE, FALSE) /\ UNCHANGED s1_rooms

\* ---- specification: the first server of server.js, two clients at one table, the
\* first client with a second connection to come back on

S1Codes == {"R1"}

\* the clientId and the name each connection sends
S1ClientOf(c) == IF c = 2 THEN "B" ELSE "A"
S1NameOf(c) == IF c = 2 THEN "Bea" ELSE "Ann"

\* the faces thrown: two 1s with no other scoring die, and no scoring die at all
S1Throws == { <<1, 1, 2, 2, 3, 4>>, <<2, 2, 3, 3, 4, 6>> }

\* the idx sent with turn:toggleHold
S1Toggles == {0, 1, 6}

InitS1 ==
  /\ sc_in = <<>> /\ sc_out = ScNone
  /\ p2_rooms = NoRooms /\ p2_sock = P2Sock0 /\ p2_last = Last0
  /\ app_rooms = NoRooms /\ app_conn = {} /\ app_last = Last0
  /\ s2_rooms = NoRooms /\ s2_conn = {} /\ s2_last = Last0
  /\ p1_rooms = NoRooms /\ p1_conn = {} /\ p1_last = Last0
  /\ s1_rooms = NoRooms /\ s1_sock = S1Sock0 /\ s1_last = Last0
  /\ app_out = App_noPayload

S1Frame == UNCHANGED <<scVars, p2Vars, appVars, s2Vars, p1Vars>>

NextS1 ==
  \/ \E c \in S1Conns, code \in S1Codes :
       S1_room_create(c, code, S1NameOf(c), S1ClientOf(c)) /\ S1Frame
  \/ \E c \in S1Conns, code \in S1Codes :
       S1_room_join(c, code, S1NameOf(c), S1ClientOf(c)) /\ S1Frame
  \/ \E c \in S1Conns : S1_game_new(c) /\ S1Frame
  \/ \E c \in S1Conns, t \in S1Throws : S1_turn_roll(c, Thrown(t)) /\ S1Frame
  \/ \E c \in S1Conns, idx \in S1Toggles : S1_turn_toggleHold(c, idx) /\ S1Frame
  \/ \E c \in S1Conns : S1_turn_keep(c) /\ S1Frame
  \/ \E c \in S1Conns : S1_turn_bank(c) /\ S1Frame
  \/ \E c \in S1Conns : S1_disconnect(c) /\ S1Frame

SpecS1 == InitS1 /\ [][NextS1]_vars

\* ------------------------------------------------- claims: part_002 server

\* the room and seat a connection's socket.data names
P2_roomOf(c) == p2_rooms[p2_sock[c].roomCode]
P2_seatOf(c) == p2_sock[c].seat

\* the fields C1 names
P2_frozenView(room) ==
  <<room.players[0].score, room.players[1].score, room.game.turnPoints, room.game.dice,
    room.game.keptMask, room.game.turnSeat, room.game.phase, room.game.winnerSeat>>

\* C1: once a bank has set winnerSeat, every roll, keep and bank is rejected and leaves
\* the scores, turnPoints, dice, keptMask, turnSeat, phase and winnerSeat unchanged
\* (until new_game).
C1_FrozenAfterWin ==
  [][\A code \in DOMAIN p2_rooms :
        (/\ p2_rooms[code].game.winnerSeat # NoSeat
         /\ p2_last'.ev \in {"roll", "keep", "bank"}
         /\ p2_sock[p2_last'.conn].roomCode = code)
        => /\ P2_frozenView(p2_rooms'[code]) = P2_frozenView(p2_rooms[code])
           /\ ~p2_last'.state]_vars

\* C2: a roll, keep or bank from a connection whose seat is not game.turnSeat changes
\* nothing in the room, is not followed by a 'state' broadcast, and the caller gets a toast.
C2_NonActiveRejected ==
  [][(/\ p2_last'.ev \in {"roll", "keep", "bank"}
      /\ P2_hasRoom(p2_last'.conn)
      /\ P2_seatOf(p2_last'.conn) \in Seats
      /\ P2_seatOf(p2_last'.conn) # P2_roomOf(p2_last'.conn).game.turnSeat)
     => /\ p2_rooms' = p2_rooms
        /\ ~p2_last'.state
        /\ p2_last'.toast]_vars

\* C2 witness: the non-active seat has just sent bank while the active seat holds turn
\* points, and was answered with a toast only.
C2_Witness ==
  /\ p2_last.ev = "bank" /\ p2_last.toast /\ ~p2_last.state
  /\ P2_hasRoom(p2_last.conn)
  /\ P2_seatOf(p2_last.conn) \in Seats
  /\ P2_seatOf(p2_last.conn) # P2_roomOf(p2_last.conn).game.turnSeat
  /\ P2_roomOf(p2_last.conn).players[P2_seatOf(p2_last.conn)].socketId = p2_last.conn
  /\ P2_roomOf(p2_last.conn).game.turnPoints > 0

\* ------------------------------------------------- claims: scoring

\* c dice of face f
Copies(f, c) == [i \in 1..c |-> f]

\* the faces that occur exactly n times in s
FacesWith(s, n) == {f \in Faces : Count(s, f) = n}

\* C6 (part_002 scoreSelected): a selection of exactly c dice of one face f, c in 3..6,
\* is valid and scores base(f) * 2^(c-3); none of the c dice is scored again or left over.
C6_NOfAKind ==
  \A f \in Faces, c \in 3..6 :
    (sc_out.applied /\ sc_in = Copies(f, c))
    => /\ sc_out.p2.allScoring
       /\ sc_out.p2.score = base(f) * 2 ^ (c - 3)

\* C7 as stated (part_001 scoreSelection): c dice of one face, c in 3..6, score
\* base * 2^(c-3); six 1s score 8000.
C7_Original ==
  \A f \in Faces, c \in 3..6 :
    (sc_out.applied /\ sc_in = Copies(f, c))
    => /\ sc_out.p1.ok
       /\ sc_out.p1.points = base(f) * 2 ^ (c - 3)

\* C7 as amended (part_001 scoreSelection): c dice of one face, c in 3..6, are valid and
\* score base * (c-2): the triple score once, doubled, tripled, quadrupled; six 1s score 4000.
C7_NOfAKindLinear ==
  \A f \in Faces, c \in 3..6 :
    (sc_out.applied /\ sc_in = Copies(f, c))
    => /\ sc_out.p1.ok
       /\ sc_out.p1.points = base(f) * (c - 2)

\* C7 witness: six 1s have been scored by part_001's scoreSelection, for 4000.
C7_Witness ==
  sc_out.applied /\ sc_in = Copies(1, 6) /\ sc_out.p1.ok /\ sc_out.p1.points = 4000

\* C8 (app.js scoreSelection): of six dice, a straight is valid for 1500, three distinct
\* faces twice each are valid for 1500, two distinct faces three times each are valid for
\* 2500; never the n-of-a-kind/singles decomposition.
C8_SixDiceCombos ==
  (sc_out.applied /\ Len(sc_in) = 6)
  => /\ (\A f \in Faces : Count(sc_in, f) = 1)
          => sc_out.app.ok /\ sc_out.app.score = 1500
     /\ Cardinality(FacesWith(sc_in, 2)) = 3
          => sc_out.app.ok /\ sc_out.app.score = 1500
     /\ Cardinality(FacesWith(sc_in, 3)) = 2
          => sc_out.app.ok /\ sc_out.app.score = 2500

\* C8 witness: [1,1,1,5,5,5] has been scored by app.js' scoreSelection, for 2500.
C8_Witness ==
  sc_out.applied /\ sc_in = <<1, 1, 1, 5, 5, 5>> /\ sc_out.app.ok /\ sc_out.app.score = 2500

isFourAndPair(s) == Len(s) = 6 /\ FacesWith(s, 4) # {} /\ FacesWith(s, 2) # {}

\* C9 as stated (app.js scoreSelection): six dice with one face four times and another
\* twice are valid and score exactly 1500.
C9_Original ==
  (sc_out.applied /\ isFourAndPair(sc_in))
  => sc_out.app.ok /\ sc_out.app.score = 1500

\* C9 as amended (app.js scoreSelection): six dice with one face f four times and another
\* face g twice are scored by the n-of-a-kind and singles rules: valid exactly when g is
\* 1 or 5, for 2 * base(f) plus 200 (g = 1) or 100 (g = 5); the score is never 1500.
C9_FourAndPairGeneral ==
  \A f \in Faces, g \in Faces :
    (sc_out.applied /\ Len(sc_in) = 6 /\ Count(sc_in, f) = 4 /\ Count(sc_in, g) = 2)
    => /\ sc_out.app.ok = (g \in {1, 5})
       /\ sc_out.app.score =
            (IF g = 1 THEN 2 * base(f) + 200 ELSE IF g = 5 THEN 2 * base(f) + 100 ELSE 0)
       /\ sc_out.app.score # 1500

\* C9 witness: [1,1,1,1,5,5] has been scored by app.js' scoreSelection, for 2100.
C9_Witness ==
  sc_out.applied /\ sc_in = <<1, 1, 1, 1, 5, 5>> /\ sc_out.app.ok /\ sc_out.app.score = 2100

\* the non-empty sub-arrays of s
SubSelections(s) == {Sub(s, I) : I \in (SUBSET (1..Len(s))) \ {{}}}

\* C10 (part_002): for every 1 to 6 faces, availableScoringFaces is true exactly when
\* scoreSelected accepts (allScoring) at least one non-empty sub-selection of them.
C10_AvailableIffSubsetScores ==
  (sc_out.applied /\ Len(sc_in) >= 1)
  => (sc_out.avail <=> \E sub \in SubSelections(sc_in) : P2_scoreSelected(sub).allScoring)

\* C10 witness: availableScoringFaces has answered false for six dice (two pairs and
\* two odd dice, no 1 and no 5).
C10_Witness ==
  sc_out.applied /\ sc_in = <<2, 2, 3, 4, 6, 6>> /\ ~sc_out.avail

\* ------------------------------------------------- claims: app.js server

\* the turn state a hot-dice keep leaves and only a hot-dice keep leaves: a roll clears
\* canRoll, any other keep leaves a kept die, a new turn clears hasRolled
App_afterHotDice(room) ==
  /\ room.started /\ room.winnerIndex = NoIndex
  /\ room.turn.hasRolled /\ room.turn.canRoll /\ room.turn.kept = NoFalse

\* C3 (app.js server): after a hot-dice turn:keep and until a turn:roll is accepted, every
\* turn:keep is rejected and changes nothing, so the same six dice are not scored twice.
C3_NoKeepAfterHotDice ==
  [][\A code \in DOMAIN app_rooms :
        (App_afterHotDice(app_rooms[code]) /\ app_last'.ev = "turn:keep")
        => /\ app_rooms'[code] = app_rooms[code]
           /\ ~app_last'.state]_vars

\* ------------------------------------------------- claims: server.js (second server)

\* the dice an accepted game:keep selected: all unkept dice when the keep emptied kept
\* (hot dice), else the dice newly kept
S2_keptBy(game, after) ==
  IF after.kept = NoFalse THEN {i \in Idx : ~game.kept[i]}
  ELSE {i \in Idx : after.kept[i] /\ ~game.kept[i]}

\* C4 (server.js second server): a game:keep while no game:roll has been accepted since the
\* turn began or since the last accepted keep (canRoll is still true) is rejected and
\* changes nothing.
C4_KeepNeedsRoll ==
  [][\A code \in DOMAIN s2_rooms :
        (/\ s2_rooms[code].game.status = "playing"
         /\ s2_rooms[code].game.canRoll
         /\ s2_last'.ev = "game:keep")
        => /\ s2_rooms'[code] = s2_rooms[code]
           /\ ~s2_last'.state]_vars

\* a selection in which every die belongs to a scoring group of the selection itself
S2_scoresWithin(dice, sel) ==
  \/ Cardinality(sel) = 6 /\ S2_isSpecial(dice, sel)
  \/ \A i \in sel : dice[i] \in {1, 5} \/ S2_count(dice, sel, dice[i]) >= 3

\* C5 (server.js second server): game:keep accepts a selection only if every selected die
\* belongs to a scoring group within the selection: a selection holding a 2, 3, 4 or 6
\* fewer than three times, outside a six-dice combination, is rejected.
C5_KeepOnlyScoringDice ==
  [][\A code \in DOMAIN s2_rooms :
        (s2_last'.ev = "game:keep" /\ s2_last'.state)
        => S2_scoresWithin(s2_rooms[code].game.dice,
                           S2_keptBy(s2_rooms[code].game, s2_rooms'[code].game))]_vars

\* ------------------------------------------------- claims: part_002 turn engine

P2_gameOf(c) == p2_rooms[p2_sock[c].roomCode].game

\* the keptMask a keep of the index list k by connection c produces before the hot-dice test
P2_maskWith(c, k) ==
  [i \in Idx |-> P2_gameOf(c).keptMask[i] \/ i \in ({k[j] : j \in DOMAIN k} \cap Idx)]

P2_allTrue(mask) == \A i \in Idx : mask[i]

\* the step is keep(k) by c, accepted (a 'state' broadcast follows)
P2_acceptedKeep(c, k) ==
  /\ p2_last'.ev = "keep" /\ p2_last'.conn = c /\ p2_last'.state
  /\ P2_hasRoom(c) /\ P2_keep(c, k)

\* C11 (part_002): in every reachable state of every room, game.keptMask is not all-true.
C11_KeptMaskNeverAllTrue ==
  \A code \in DOMAIN p2_rooms : ~P2_allTrue(p2_rooms[code].game.keptMask)

\* C11 witness: a room just after a hot-dice keep, keptMask normalised to all-false.
C11_Witness ==
  \E code \in DOMAIN p2_rooms :
    /\ p2_rooms[code].game.lastAction = "hot_dice"
    /\ p2_rooms[code].game.keptMask = NoFalse

\* C12 as stated (part_002): an accepted keep that makes all six keptMask entries true ends
\* with keptMask all-false, dice cleared to 0, turnPoints raised by the keep's score,
\* turnSeat unchanged and phase 'must_roll'.
C12_Original ==
  [][\A c \in P2Conns, k \in P2Keeps :
        (P2_acceptedKeep(c, k) /\ P2_allTrue(P2_maskWith(c, k)))
        => LET game == P2_gameOf(c)
               after == p2_rooms'[p2_sock[c].roomCode].game
           IN /\ after.keptMask = NoFalse
              /\ after.dice = [i \in Idx |-> 0]
              /\ after.turnPoints = game.turnPoints
                   + P2_scoreSelected(At(game.dice, {k[j] : j \in DOMAIN k} \cap Idx)).score
              /\ after.turnSeat = game.turnSeat
              /\ after.phase = "must_roll"]_vars

\* C12 as amended (part_002): an accepted keep that makes all six keptMask entries true ends
\* with keptMask all-false, the dice left showing the faces just kept (not cleared),
\* turnPoints raised by the keep's score, turnSeat unchanged and phase 'must_roll'.
C12_HotDiceKeepsDice ==
  [][\A c \in P2Conns, k \in P2Keeps :
        (P2_acceptedKeep(c, k) /\ P2_allTrue(P2_maskWith(c, k)))
        => LET game == P2_gameOf(c)
               after == p2_rooms'[p2_sock[c].roomCode].game
           IN /\ after.keptMask = NoFalse
              /\ after.dice = game.dice
              /\ \A i \in Idx : after.dice[i] \in Faces
              /\ after.turnPoints = game.turnPoints
                   + P2_scoreSelected(At(game.dice, {k[j] : j \in DOMAIN k} \cap Idx)).score
              /\ after.turnSeat = game.turnSeat
              /\ after.phase = "must_roll"]_vars

\* C12 witness: after a hot-dice keep the turn holds 2000 points and the six kept 1s
\* are still on the table.
C12_Witness ==
  \E code \in DOMAIN p2_rooms :
    /\ p2_rooms[code].game.lastAction = "hot_dice"
    /\ p2_rooms[code].game.turnPoints = 2000
    /\ p2_rooms[code].game.dice = [i \in Idx |-> 1]
    /\ p2_rooms[code].game.phase = "must_roll"

\* C13 (part_002): while phase is 'selecting' a roll is rejected with no state change, so
\* between two accepted rolls of one turn there is always an accepted keep.
C13_NoRollWhileSelecting ==
  [][\A c \in P2Conns, t \in P2Throws :
        (/\ p2_last'.ev = "roll" /\ p2_last'.conn = c
         /\ P2_hasRoom(c) /\ P2_gameOf(c).phase = "selecting"
         /\ P2_roll(c, Thrown(t)))
        => p2_rooms' = p2_rooms /\ ~p2_last'.state]_vars

\* the roll of throw t by c is accepted and leaves no scoring option among the unkept dice
P2_farkleRoll(c, t) ==
  /\ p2_last'.ev = "roll" /\ p2_last'.conn = c /\ p2_last'.state
  /\ P2_hasRoom(c) /\ P2_roll(c, Thrown(t))
  /\ ~P2_availableScoringFaces(At(P2_rollDice(P2_gameOf(c), Thrown(t)).dice,
                                  P2_unkept(P2_gameOf(c))))

\* C14 (part_002): an accepted roll that leaves no scoring option among the re-rolled dice
\* ends with turnPoints 0, keptMask all-false, dice cleared, turnSeat flipped, phase
\* 'must_roll' and both scores unchanged.
C14_FarkleEndsTurn ==
  [][\A c \in P2Conns, t \in P2Throws :
        P2_farkleRoll(c, t)
        => LET room == p2_rooms[p2_sock[c].roomCode]
               after == p2_rooms'[p2_sock[c].roomCode]
           IN /\ after.game.turnPoints = 0
              /\ after.game.keptMask = NoFalse
              /\ after.game.dice = [i \in Idx |-> 0]
              /\ after.game.turnSeat = 1 - room.game.turnSeat
              /\ after.game.phase = "must_roll"
              /\ \A s \in Seats : after.players[s].score = room.players[s].score]_vars

\* C14 witness: seat 0 has farkled and the turn is with seat 1, nothing banked.
C14_Witness ==
  \E code \in DOMAIN p2_rooms :
    /\ p2_rooms[code].game.lastAction = "farkled"
    /\ p2_rooms[code].game.turnSeat = 1
    /\ p2_rooms[code].game.turnPoints = 0
    /\ p2_rooms[code].players[0].score = 0
    /\ p2_last.ev = "roll"

\* the in-range indices of the list k, duplicates merged
P2_indexSet(k) == {k[j] : j \in DOMAIN k} \cap Idx

\* the step is keep(k) by c, whatever its outcome
P2_keepBy(c, k) ==
  /\ p2_last'.ev = "keep" /\ p2_last'.conn = c
  /\ P2_hasRoom(c) /\ P2_keep(c, k)

\* C16 as stated (part_002): a keep whose index list is empty, holds an index outside 0..5,
\* holds a duplicated index or holds an already kept index is rejected as a whole and
\* leaves keptMask, turnPoints and phase unchanged.
C16_Original ==
  [][\A c \in P2Conns, k \in P2Keeps :
        (/\ P2_keepBy(c, k)
         /\ \/ k = <<>>
            \/ \E j \in DOMAIN k : k[j] \notin Idx
            \/ \E i, j \in DOMAIN k : i # j /\ k[i] = k[j]
            \/ \E i \in P2_indexSet(k) : P2_gameOf(c).keptMask[i])
        => LET game == P2_gameOf(c)
               after == p2_rooms'[p2_sock[c].roomCode].game
           IN /\ after.keptMask = game.keptMask
              /\ after.turnPoints = game.turnPoints
              /\ after.phase = game.phase]_vars

\* C16 as amended (part_002): duplicated indices and indices outside 0..5 are dropped from
\* the list; a keep whose remaining index set is empty or holds an already kept index is
\* rejected as a whole with no change to the room, and an accepted keep marks exactly
\* the remaining index set as kept.
C16_KeepIndexValidation ==
  [][\A c \in P2Conns, k \in P2Keeps :
        P2_keepBy(c, k)
        => LET game == P2_gameOf(c)
               after == p2_rooms'[p2_sock[c].roomCode].game
           IN /\ (P2_indexSet(k) = {} \/ \E i \in P2_indexSet(k) : game.keptMask[i])
                 => (p2_rooms' = p2_rooms /\ ~p2_last'.state)
              /\ p2_last'.state
                 => after.keptMask = IF P2_allTrue(P2_maskWith(c, k)) THEN NoFalse
                                     ELSE P2_maskWith(c, k)]_vars

\* C16 witness: the active seat, with dice 0-2 kept and a new roll on the table, has had
\* a keep rejected.
C16_Witness ==
  /\ p2_last.ev = "keep" /\ p2_last.toast /\ ~p2_last.state
  /\ P2_hasRoom(p2_last.conn)
  /\ P2_gameOf(p2_last.conn).phase = "selecting"
  /\ P2_gameOf(p2_last.conn).turnSeat = P2_seatOf(p2_last.conn)
  /\ P2_roomOf(p2_last.conn).players[P2_seatOf(p2_last.conn)].socketId = p2_last.conn
  /\ P2_gameOf(p2_last.conn).keptMask[0]

\* ------------------------------------------------- claims: part_002 seats

\* C18 (part_002): a join_table presenting a name equal, case-insensitively, to the name of
\* a seat that is online and bound to another connection is rejected and leaves that
\* seat's socketId unchanged.
C18_OnlineSeatNotRebound ==
  [][\A c \in P2AllConns, code \in DOMAIN p2_rooms, s \in Seats :
        \A name \in P2NameOf(c) :
          (/\ p2_last'.ev = "join_table" /\ p2_last'.conn = c
           /\ P2_join_table(c, code, name)
           /\ p2_rooms[code].players[s].online
           /\ p2_rooms[code].players[s].socketId # c
           /\ p2_rooms[code].players[s].name # Null
           /\ toLowerCase(p2_rooms[code].players[s].name) = toLowerCase(P2_safeName(name)))
          => /\ ~p2_last'.state
             /\ p2_rooms'[code].players[s].socketId = p2_rooms[code].players[s].socketId]_vars

\* ------------------------------------------------- claims: app.js seats

\* the step is room:join(code, name) by c, on an existing room
App_joinBy(c, code, name) ==
  /\ app_last'.ev = "room:join" /\ app_last'.conn = c
  /\ code \in DOMAIN app_rooms
  /\ App_room_join(c, code, name)

\* C17 as stated (app.js server): a room:join presenting a name different from the name
\* held by a disconnected seat never binds to that seat, whose name and score stay
\* reserved; when both seats are held by other names the join is rejected as full.
C17_Original ==
  [][\A c \in AppConns, code \in AppCodes : \A name \in AppNameOf(c) :
        App_joinBy(c, code, name)
        => LET room == app_rooms[code]
               held(s) == room.players[s].name # ""
                          /\ room.players[s].name # App_cleanName(name, "Player")
           IN /\ \A s \in Seats :
                   (room.players[s].socketId = NoSock /\ held(s))
                   => app_rooms'[code].players[s] = room.players[s]
              /\ (held(0) /\ held(1))
                   => (app_rooms' = app_rooms /\ ~app_last'.state)]_vars

\* C17 as amended (app.js server): room:join ignores names when it picks a seat: it binds
\* the connection to the first seat without a socketId, overwrites that seat's name with
\* the name presented and keeps that seat's score, leaving the other seat alone; it is
\* rejected as full only when both seats have a socketId.
C17_JoinTakesFirstOpenSeat ==
  [][\A c \in AppConns, code \in AppCodes : \A name \in AppNameOf(c) :
        App_joinBy(c, code, name)
        => LET room == app_rooms[code]
               after == app_rooms'[code]
               free(s) == room.players[s].socketId = NoSock
               seat == IF free(0) THEN 0 ELSE 1
           IN IF ~free(0) /\ ~free(1)
              THEN app_rooms' = app_rooms /\ ~app_last'.state /\ app_last'.toast
              ELSE /\ after.players[seat] =
                        [socketId |-> c, name |-> App_cleanName(name, "Player"),
                         score |-> room.players[seat].score]
                   /\ after.players[1 - seat] = room.players[1 - seat]
                   /\ app_last'.state]_vars

\* C17 witness: Bea's connection has joined into seat 0, which Ann had left with points
\* banked; the seat now carries Bea's name and Ann's score.
C17_Witness ==
  /\ app_last.ev = "room:join" /\ app_last.state /\ app_last.conn = 2
  /\ \E code \in DOMAIN app_rooms :
       /\ app_rooms[code].players[0].socketId = 2
       /\ app_rooms[code].players[0].name = "Bea"
       /\ app_rooms[code].players[0].score > 0

\* ------------------------------------------------- claims: part_001 seats

\* C19: in every reachable state of every room of the part_001 server, the two seats,
\* when both are occupied, hold names that differ without regard to case.
C19_SeatNamesDiffer ==
  \A code \in DOMAIN p1_rooms :
     LET players == p1_rooms[code].players
     IN (players[0] # P1_null /\ players[1] # P1_null)
        => toLowerCase(players[0].name) # toLowerCase(players[1].name)

\* the step is the disconnect of connection c
P1_disconnectBy(c) ==
  /\ p1_last'.ev = "disconnect" /\ p1_last'.conn = c
  /\ P1_disconnect(c)

\* the step is a room:join of connection c to code under name
P1_joinBy(c, code, name) ==
  /\ p1_last'.ev = "room:join" /\ p1_last'.conn = c
  /\ P1_room_join(c, code, name)

\* C20: when the connection of seat s disconnects, seat s is left with sid null and
\* online false, its name and both scores as they were; and a room:join to the room
\* under the name of an offline seat s (without regard to case) binds the joining
\* connection to that seat s, touches no other seat and leaves both scores as they were.
C20_ReclaimSameSeat ==
  [][\A c \in P1AllConns, code \in P1Codes, s \in Seats :
       /\ (/\ P1_disconnectBy(c)
           /\ code \in DOMAIN p1_rooms
           /\ p1_rooms[code].players[s].sid = c)
          => /\ p1_rooms'[code].players[s].sid = NoSock
             /\ ~p1_rooms'[code].players[s].online
             /\ p1_rooms'[code].players[s].name = p1_rooms[code].players[s].name
             /\ p1_rooms'[code].game.scores = p1_rooms[code].game.scores
       /\ \A name \in P1LobbyNameOf(c) :
            (/\ P1_joinBy(c, code, name)
             /\ code \in DOMAIN p1_rooms
             /\ p1_rooms[code].players[s] # P1_null
             /\ p1_rooms[code].players[s].sid = NoSock
             /\ ~p1_rooms[code].players[s].online
             /\ toLowerCase(p1_rooms[code].players[s].name) = toLowerCase(name))
            => /\ p1_rooms'[code].players[s].sid = c
               /\ p1_rooms'[code].players[s].online
               /\ p1_rooms'[code].players[1 - s] = p1_rooms[code].players[1 - s]
               /\ p1_rooms'[code].game.scores = p1_rooms[code].game.scores]_vars

\* ------------------------------------------------- claims: part_001 turn engine

P1Cleared == [i \in Idx |-> 0]

\* the step is a turn:bank of connection c on code that was accepted
P1_bankBy(c, code) ==
  /\ p1_last'.ev = "turn:bank" /\ p1_last'.conn = c /\ p1_last'.state
  /\ P1_turn_bank(c, code)

\* C15 as stated: after every accepted turn:bank the banking seat's score has grown by
\* exactly the turnPoints before the bank and the turn state is reset (turnPoints 0,
\* dice cleared, kept all false), whether or not the bank reaches the winning score.
C15_Original ==
  [][\A c \in P1Conns, code \in P1Codes :
       P1_bankBy(c, code)
       => LET g == p1_rooms[code].game
              t == g.turnIndex
          IN /\ p1_rooms'[code].game.scores[t] = g.scores[t] + g.turnPoints
             /\ p1_rooms'[code].game.turnPoints = 0
             /\ p1_rooms'[code].game.dice = P1Cleared
             /\ p1_rooms'[code].game.kept = NoFalse]_vars

\* C15, amended: after every accepted turn:bank the banking seat's score has grown by
\* exactly the turnPoints before the bank and the other score is as it was; when the
\* new score is below the winning score the turn state is reset (turnPoints 0, dice
\* cleared, kept all false) and the turn passes to the other seat; when it reaches the
\* winning score the stage is GAME_OVER, the winner is the banking seat, and
\* turnPoints, dice, kept, turnIndex and the three can-flags stay as they were.
C15_BankResetsUnlessWin ==
  [][\A c \in P1Conns, code \in P1Codes :
       P1_bankBy(c, code)
       => LET g == p1_rooms[code].game
              h == p1_rooms'[code].game
              t == g.turnIndex
          IN /\ h.scores[t] = g.scores[t] + g.turnPoints
             /\ h.scores[1 - t] = g.scores[1 - t]
             /\ IF h.scores[t] >= P1_winningScore
                THEN /\ h.stage = "GAME_OVER" /\ h.winner = t
                     /\ h.turnPoints = g.turnPoints /\ h.dice = g.dice /\ h.kept = g.kept
                     /\ h.turnIndex = t
                     /\ h.canRoll = g.canRoll /\ h.canKeep = g.canKeep
                     /\ h.canBank = g.canBank
                ELSE /\ h.stage = "IN_PROGRESS" /\ h.winner = NoIndex
                     /\ h.turnPoints = 0 /\ h.dice = P1Cleared /\ h.kept = NoFalse
                     /\ h.turnIndex = 1 - t]_vars

\* a bank has just won the game with dice still marked kept and turn points standing
C15_Witness ==
  /\ p1_last.ev = "turn:bank" /\ p1_last.state
  /\ \E code \in DOMAIN p1_rooms :
       LET g == p1_rooms[code].game
       IN /\ g.stage = "GAME_OVER" /\ g.winner = g.turnIndex
          /\ g.scores[g.winner] >= P1_winningScore
          /\ g.turnPoints > 0
          /\ \E i \in Idx : g.kept[i] /\ g.dice[i] # 0

\* ------------------------------------------------- claims: part_002 connections

\* C21: once the disconnect of a connection c has been processed, no seat of any room
\* is still bound to c (socketId = c with online true), also when c created or joined
\* more than one room during its lifetime.
C21_NoSeatBoundAfterDisconnect ==
  \A c \in P2AllConns :
     ~p2_sock[c].up
     => \A code \in DOMAIN p2_rooms, s \in Seats :
          ~(p2_rooms[code].players[s].socketId = c /\ p2_rooms[code].players[s].online)

\* ------------------------------------------------- claims: app.js game start

\* a seat of room that no connection has ever taken: it still has the empty name of
\* makeNewRoom (room:create and room:join always write a non-empty name)
App_neverOccupied(room) == \E s \in Seats : room.players[s].name = ""

\* C22: while one of the two seats of a room has never been occupied the game is not
\* started, also after a game:new, and no turn:roll is accepted.
C22_NoGameWithEmptySeat ==
  \A code \in DOMAIN app_rooms :
     App_neverOccupied(app_rooms[code])
     => /\ ~app_rooms[code].started
        /\ ~(app_last.ev = "turn:roll" /\ app_last.state)

\* ------------------------------------------------- claims: part_002 game start

P2_named(room) == {s \in Seats : room.players[s].name # Null}

P2_turnStarted(game) ==
  /\ game.phase = "must_roll" /\ game.turnSeat = 0
  /\ game.turnPoints = 0 /\ game.keptMask = NoFalse

\* C23: after every step, in every room, phase is 'waiting' exactly when fewer than two
\* seats have a name; the join_table in which the second seat gets its name, and a
\* new_game processed while both seats have a name, end with phase 'must_roll',
\* turnSeat 0, turnPoints 0 and keptMask all false.
C23_WaitingUntilBothSeated ==
  [][/\ \A code \in DOMAIN p2_rooms' :
          (p2_rooms'[code].game.phase = "waiting")
          <=> (Cardinality(P2_named(p2_rooms'[code])) < 2)
     /\ \A c \in P2Conns, code \in P2Codes :
          /\ (/\ p2_last'.ev = "join_table" /\ p2_last'.conn = c /\ p2_last'.state
              /\ \E name \in P2NameOf(c) : P2_join_table(c, code, name)
              /\ code \in DOMAIN p2_rooms
              /\ Cardinality(P2_named(p2_rooms[code])) < 2
              /\ Cardinality(P2_named(p2_rooms'[code])) = 2)
             => P2_turnStarted(p2_rooms'[code].game)
          /\ (/\ p2_last'.ev = "new_game" /\ p2_last'.conn = c /\ p2_last'.state
              /\ P2_new_game(c)
              /\ p2_sock[c].roomCode = code
              /\ Cardinality(P2_named(p2_rooms[code])) = 2)
             => P2_turnStarted(p2_rooms'[code].game)]_vars

\* a new_game has restarted the game of a table with both seats named
C23_Witness ==
  /\ p2_last.ev = "new_game" /\ p2_last.state
  /\ \E code \in DOMAIN p2_rooms :
       /\ Cardinality(P2_named(p2_rooms[code])) = 2
       /\ P2_turnStarted(p2_rooms[code].game)
       /\ p2_rooms[code].game.started

\* ------------------------------------------------- claims: part_002 winner

\* C29: in every reachable state of every room, game.winnerSeat is non-null exactly when
\* phase is 'finished'; the seat winnerSeat names has a score of at least 10000; and a
\* seat with a score of at least 10000 is the seat winnerSeat names.
C29_WinnerIffFinished ==
  \A code \in DOMAIN p2_rooms :
     LET room == p2_rooms[code]
     IN /\ (room.game.winnerSeat # NoSeat) <=> (room.game.phase = "finished")
        /\ \A s \in Seats :
             /\ (room.game.winnerSeat = s) => (room.players[s].score >= WIN)
             /\ (room.players[s].score >= WIN) => (room.game.winnerSeat = s)

\* a bank has just taken a seat to the target while the other seat had scored too
C29_Witness ==
  /\ p2_last.ev = "bank" /\ p2_last.state
  /\ \E code \in DOMAIN p2_rooms : \E s \in Seats :
       /\ p2_rooms[code].game.winnerSeat = s
       /\ p2_rooms[code].game.phase = "finished"
       /\ p2_rooms[code].players[s].score >= WIN
       /\ p2_rooms[code].players[1 - s].score > 0

\* ------------------------------------------------- claims: app.js turn engine

\* the step is a turn:roll of connection c on code, with the throw t, that was accepted
App_rollBy(c, code, t) ==
  /\ app_last'.ev = "turn:roll" /\ app_last'.conn = c /\ app_last'.state
  /\ App_turn_roll(c, code, Thrown(t))

\* C26 as stated: a turn:roll changes the value only of dice whose kept flag is false,
\* every kept die keeps its value, and a roll that is not a farkle leaves the kept mask
\* and turnPoints unchanged.
C26_Original ==
  [][\A c \in AppConns, code \in AppCodes, t \in AppTurnThrows :
       App_rollBy(c, code, t)
       => LET old == app_rooms[code]
              new == app_rooms'[code]
          IN /\ \A i \in Idx : old.turn.kept[i] => new.turn.dice[i] = old.turn.dice[i]
             /\ (new.currentTurn = old.currentTurn)
                => /\ new.turn.kept = old.turn.kept
                   /\ new.turn.turnPoints = old.turn.turnPoints]_vars

\* C26, amended: a turn:roll that is not a farkle changes the value only of dice whose
\* kept flag is false (each takes the face thrown for it), every kept die keeps its
\* value, and the kept mask and turnPoints are unchanged; a farkle roll replaces the
\* whole turn record by a fresh one (all six dice 1, kept all false, turnPoints 0) and
\* passes the turn.
C26_RollKeepsKeptDice ==
  [][\A c \in AppConns, code \in AppCodes, t \in AppTurnThrows :
       App_rollBy(c, code, t)
       => LET old == app_rooms[code]
              new == app_rooms'[code]
              unkeptValues == At(Thrown(t), App_unkept(old.turn))
          IN IF App_hasAnyScoring(unkeptValues)
             THEN /\ \A i \in Idx :
                       new.turn.dice[i] = IF old.turn.kept[i] THEN old.turn.dice[i]
                                          ELSE t[i + 1]
                  /\ new.turn.kept = old.turn.kept
                  /\ new.turn.turnPoints = old.turn.turnPoints
                  /\ new.currentTurn = old.currentTurn
             ELSE /\ new.turn = App_makeFreshTurnState
                  /\ new.currentTurn = App_otherSeat(old.currentTurn)]_vars

\* a roll has been accepted with three dice kept, and was not a farkle
C26_Witness ==
  /\ app_last.ev = "turn:roll" /\ app_last.state
  /\ \E code \in DOMAIN app_rooms :
       LET turn == app_rooms[code].turn
       IN /\ turn.hasRolled /\ ~turn.canRoll
          /\ \A i \in {0, 1, 2} : turn.kept[i] /\ turn.dice[i] = 5
          /\ \A i \in {3, 4, 5} : ~turn.kept[i] /\ turn.dice[i] = 1
          /\ turn.turnPoints > 0

\* C28: turn.turnPoints is positive only if a keep has been accepted since the turn
\* record was last reset: a room is created with turnPoints 0, a step in which
\* turnPoints changes to a positive value is an accepted turn:keep that raises it, and
\* whenever turnPoints is positive turn.hasRolled is true.
C28_TurnPointsOnlyFromKeep ==
  [][\A code \in DOMAIN app_rooms' :
       LET new == app_rooms'[code].turn
       IN /\ (new.turnPoints > 0) => new.hasRolled
          /\ (code \notin DOMAIN app_rooms) => (new.turnPoints = 0)
          /\ (/\ code \in DOMAIN app_rooms
              /\ new.turnPoints > 0
              /\ new.turnPoints # app_rooms[code].turn.turnPoints)
             => /\ app_last'.ev = "turn:keep" /\ app_last'.state
                /\ new.turnPoints > app_rooms[code].turn.turnPoints]_vars

\* a second keep of the turn has been accepted and turn points stand
C28_Witness ==
  /\ app_last.ev = "turn:keep" /\ app_last.state
  /\ \E code \in DOMAIN app_rooms :
       /\ app_rooms[code].turn.turnPoints >= 1000
       /\ app_rooms[code].turn.hasRolled
       /\ \E i \in Idx : app_rooms[code].turn.kept[i]

\* ------------------------------------------------- claims: app.js disconnect

\* whether the guards of turn:roll, turn:keep (with the index list k), turn:bank and
\* game:new let an intent of connection d through on room
App_rollPasses(room, d) ==
  /\ room.started /\ room.winnerIndex = NoIndex
  /\ App_getSeatIndex(room, d) # NoIndex
  /\ App_getSeatIndex(room, d) = room.currentTurn
  /\ ~(room.turn.hasRolled /\ ~room.turn.canRoll)

App_keepPasses(room, d, k) ==
  /\ room.started /\ room.winnerIndex = NoIndex
  /\ App_getSeatIndex(room, d) # NoIndex
  /\ App_getSeatIndex(room, d) = room.currentTurn
  /\ room.turn.hasRolled
  /\ App_unique(k) # {}
  /\ \A i \in App_unique(k) : ~room.turn.kept[i]
  /\ App_scoreSelection(At(room.turn.dice, App_unique(k))).ok

App_bankPasses(room, d) ==
  /\ room.started /\ room.winnerIndex = NoIndex
  /\ App_getSeatIndex(room, d) # NoIndex
  /\ App_getSeatIndex(room, d) = room.currentTurn
  /\ room.turn.hasRolled
  /\ room.turn.turnPoints > 0

App_newPasses(room, d) == App_getSeatIndex(room, d) # NoIndex

\* C25: a disconnect changes, in every room, only the socketId of the seat the
\* connection held (to null): started, currentTurn, winnerIndex, both names, both
\* scores and the whole turn record are unchanged, and the intents of every other
\* connection pass or fail the handlers' guards exactly as before the disconnect.
C25_DisconnectFrame ==
  [][\A c \in AppConns :
       (/\ app_last'.ev = "disconnect" /\ app_last'.conn = c
        /\ App_disconnect(c))
       => /\ DOMAIN app_rooms' = DOMAIN app_rooms
          /\ \A code \in DOMAIN app_rooms :
               LET room == app_rooms[code]
                   new == app_rooms'[code]
                   idx == App_getSeatIndex(room, c)
               IN /\ new.started = room.started
                  /\ new.currentTurn = room.currentTurn
                  /\ new.winnerIndex = room.winnerIndex
                  /\ new.turn = room.turn
                  /\ \A s \in Seats :
                       /\ new.players[s].name = room.players[s].name
                       /\ new.players[s].score = room.players[s].score
                       /\ new.players[s].socketId =
                            IF s = idx THEN NoSock ELSE room.players[s].socketId
                  /\ \A d \in AppConns \ {c} :
                       /\ App_rollPasses(new, d) = App_rollPasses(room, d)
                       /\ App_bankPasses(new, d) = App_bankPasses(room, d)
                       /\ App_newPasses(new, d) = App_newPasses(room, d)
                       /\ \A k \in AppKeeps :
                            App_keepPasses(new, d, k) = App_keepPasses(room, d, k)]_vars

\* a seated connection has disconnected in the middle of a turn with points standing,
\* the other seat still connected
C25_Witness ==
  /\ app_last.ev = "disconnect" /\ app_last.state
  /\ \E code \in DOMAIN app_rooms : \E s \in Seats :
       /\ app_rooms[code].started
       /\ app_rooms[code].turn.turnPoints > 0
       /\ app_rooms[code].players[s].socketId = NoSock
       /\ app_rooms[code].players[s].name # ""
       /\ app_rooms[code].players[1 - s].socketId \in app_conn

\* ------------------------------------------------- claims: server.js (first server)

\* the step is an accepted room:join of connection c to code
S1_joinBy(c, code) ==
  /\ s1_last'.ev = "room:join" /\ s1_last'.conn = c /\ s1_last'.state
  /\ S1_room_join(c, code, S1NameOf(c), S1ClientOf(c))

\* C24: activeSeat is reassigned only by an accepted bank, by a farkle roll or by the
\* start of a game (the join that seats the second player, game:new); a room:join of a
\* clientId that already has a seat (a reconnect) leaves activeSeat, turnPoints, held
\* and canRoll unchanged.
C24_ActiveSeatOnlyAtTurnBoundaries ==
  [][\A code \in DOMAIN s1_rooms :
       LET room == s1_rooms[code]
           new == s1_rooms'[code]
       IN /\ (new.activeSeat # room.activeSeat)
             => /\ s1_last'.state
                /\ \/ s1_last'.ev \in {"turn:bank", "turn:roll", "game:new"}
                   \/ /\ s1_last'.ev = "room:join"
                      /\ ~S1_bothPlayersJoined(room) /\ S1_bothPlayersJoined(new)
          /\ \A c \in S1Conns :
               (/\ S1_joinBy(c, code)
                /\ S1_seatForClient(room, S1ClientOf(c)) # NoSeat)
               => /\ new.activeSeat = room.activeSeat
                  /\ new.turnPoints = room.turnPoints
                  /\ new.held = room.held
                  /\ new.canRoll = room.canRoll]_vars

\* C27: a die that was part of an accepted turn:keep stays held and keeps its face for
\* the rest of the turn. Right after an accepted turn:roll the dice that are held are
\* the dice of the turn's accepted keeps: a turn:toggleHold then leaves such a die
\* held, and a turn:roll leaves the face of every held die as it was.
C27_KeptDiceStayHeld ==
  [][\A c \in S1Conns, code \in DOMAIN s1_rooms :
       LET room == s1_rooms[code]
           new == s1_rooms'[code]
       IN /\ \A idx \in S1Toggles \cap Idx :
               (/\ s1_last.ev = "turn:roll" /\ s1_last.state
                /\ s1_last'.ev = "turn:toggleHold" /\ s1_last'.conn = c
                /\ S1_turn_toggleHold(c, idx)
                /\ s1_sock[c].roomCode = code
                /\ room.held[idx])
               => new.held[idx]
          /\ \A t \in S1Throws :
               (/\ s1_last'.ev = "turn:roll" /\ s1_last'.conn = c /\ s1_last'.state
                /\ S1_turn_roll(c, Thrown(t))
                /\ s1_sock[c].roomCode = code)
               => \A i \in Idx : room.held[i] => new.dice[i] = room.dice[i]]_vars

\* ------------------------------------------------- claims: app.js payloads

\* C30: no room state sent to a client contains a seat's socketId: what room:update
\* and debug:state carry has, per seat, the fields name, score and connected only.
C30_NoSocketIdOnTheWire ==
  (app_out.kind # "none")
  => \A s \in Seats : DOMAIN app_out.room.players[s] = {"name", "score", "connected"}

\* ------------------------------------------------- claims: server.js first server, room codes

\* C31: room:create never stores the new room under a code that is already a key of the
\* rooms map: every room that exists before a room:create is the same room after it.
C31_CreateKeepsLiveRooms ==
  [][(s1_last'.ev = "room:create" /\ s1_last'.state)
       => \A k \in DOMAIN s1_rooms : s1_rooms'[k] = s1_rooms[k]]_vars

\* ------------------------------------------------- claims: part_001 selectable dice

\* the unkept dice at position k belong to a selection that scoreSelection accepts
P1_inAcceptedSelection(unkeptValues, k) ==
  \E I \in SUBSET (DOMAIN unkeptValues) :
    k \in I /\ P1_scoreSelection(Sub(unkeptValues, I)).ok

\* C32: for every roll that is not a farkle, evaluateRoll marks an unkept die selectable
\* if and only if the die belongs to at least one selection of the unkept dice that
\* scoreSelection accepts.
C32_SelectableIffInAcceptedSelection ==
  (sc_out.applied /\ sc_out.p1sel # {})
    => \A k \in DOMAIN sc_in :
         (k \in sc_out.p1sel) <=> P1_inAcceptedSelection(sc_in, k)

\* three 2s selectable, the 3 not, the 5 selectable
C32_Witness ==
  /\ sc_out.applied
  /\ sc_in = <<2, 2, 2, 3, 5>>
  /\ sc_out.p1sel = {1, 2, 3, 5}
  /\ ~P1_inAcceptedSelection(sc_in, 4)

\* ------------------------------------------------- claims: server.js first server, keeps

\* C33: a turn:keep is accepted only if it includes at least one die not covered by an
\* earlier accepted keep of the same turn, and a die kept earlier is never scored again.
\* The dice held when a roll is accepted are the dice of the earlier keeps of the turn
\* (holds are toggled only after a roll and cleared when a turn starts), so a turn:keep
\* that comes right after the roll, with no turn:toggleHold in between, selects no new
\* die: it is rejected and turnPoints stays as it is.
C33_KeepNeedsNewDie ==
  [][\A c \in S1Conns :
       (/\ s1_last.ev = "turn:roll" /\ s1_last.state
        /\ s1_last'.ev = "turn:keep" /\ s1_last'.conn = c
        /\ S1_turn_keep(c))
         => /\ ~s1_last'.state
            /\ s1_rooms' = s1_rooms]_vars

\* ------------------------------------------------- claims: server.js second server, entry minimum

\* every seat's score is 0 or at least entryMin
S2_onTheBoardOrZero ==
  \A code \in DOMAIN s2_rooms, s \in Seats :
    s2_rooms[code].players[s].score = 0 \/ s2_rooms[code].players[s].score >= S2_entryMin

\* a game:bank by the seat at turn with score 0 and turnPoints below entryMin
S2_bankBelowEntryBy(c, code) ==
  /\ S2_refusal(c, code) = ""
  /\ s2_rooms[code].players[S2_getSeatBySid(s2_rooms[code], c)].score = 0
  /\ s2_rooms[code].game.turnPoints < S2_entryMin
  /\ s2_last'.ev = "game:bank" /\ s2_last'.conn = c
  /\ S2_game_bank(c, code)

\* C34: a game:bank by a seat whose score is 0 with turnPoints below entryMin (500) is
\* rejected with no state change, and in every reachable state each seat's score is
\* either 0 or at least 500.
C34_EntryMinimum ==
  /\ []S2_onTheBoardOrZero
  /\ [][\A c \in S2Conns, code \in S2Codes :
          S2_bankBelowEntryBy(c, code)
            => /\ ~s2_last'.state
               /\ s2_rooms' = s2_rooms]_vars

\* a bank of 200 was refused at score 0 while the other seat, on the board with 500,
\* has banked 200 more
C34_Witness ==
  /\ s2_last.ev = "game:bank" /\ s2_last.toast /\ ~s2_last.state
  /\ \E code \in DOMAIN s2_rooms :
       LET room == s2_rooms[code]
           seat == S2_getSeatBySid(room, s2_last.conn)
       IN /\ seat # NoIndex
          /\ S2_isPlayersTurn(room, seat, s2_last.conn)
          /\ room.players[seat].score = 0
          /\ room.game.turnPoints = 200
          /\ room.players[1 - seat].score = 700

\* ------------------------------------------------- claims: server.js first server, late disconnect

\* connection c remembers a room and a clientId whose seat is online and bound to
\* another connection: the clientId has come back on a new socket
S1_rebound(c) ==
  /\ s1_sock[c].up /\ S1_hasRoom(c) /\ s1_sock[c].clientId # Null
  /\ LET room == s1_rooms[s1_sock[c].roomCode]
         seat == S1_seatForClient(room, s1_sock[c].clientId)
     IN /\ seat # NoSeat
        /\ room.players[seat].online
        /\ room.players[seat].socketId \notin {c, NoSock}

\* C35: when a clientId has rebound its seat through room:join on a new socket, the late
\* disconnect of the old socket leaves the seat online and bound to the new socket; the
\* seat of a room goes from online to offline only in the disconnect of the socket it is
\* bound to. (A room:create stores a new room with two new seats; the property is about
\* the seats of a room that stays.)
C35_OfflineOnlyByBoundSocket ==
  [][/\ \A c \in S1Conns :
          (/\ S1_rebound(c)
           /\ s1_last'.ev = "disconnect" /\ s1_last'.conn = c
           /\ S1_disconnect(c))
            => s1_rooms' = s1_rooms
     /\ \A code \in DOMAIN s1_rooms, s \in Seats :
          (/\ s1_last'.ev # "room:create"
           /\ s1_rooms[code].players[s].online
           /\ ~s1_rooms'[code].players[s].online)
            => /\ s1_last'.ev = "disconnect"
               /\ s1_last'.conn = s1_rooms[code].players[s].socketId]_vars

\* connection 1 created the table, its clientId came back on connection 3, and the
\* disconnect of connection 1 has been processed: seat 0 is online and bound to 3
C35_Witness ==
  /\ s1_last.ev = "disconnect" /\ s1_last.conn = 1
  /\ ~s1_sock[1].up /\ s1_sock[1].roomCode \in DOMAIN s1_rooms
  /\ LET room == s1_rooms[s1_sock[1].roomCode]
     IN /\ room.players[0].clientId = s1_sock[1].clientId
        /\ room.players[0].socketId = 3
        /\ room.players[0].online

\* ------------------------------------------------- claims: part_002 sync guard

\* connection c remembers a seat of a table, and that seat is now bound to another
\* connection or to none
P2_stale(c) ==
  /\ p2_sock[c].up /\ P2_hasRoom(c) /\ P2_seatOf(c) \in Seats
  /\ P2_roomOf(c).players[P2_seatOf(c)].socketId # c

\* C36: a roll, keep or bank sent by a connection that is no longer the current socketId
\* of the seat it remembers is rejected with no state change, even when that seat is
\* game.turnSeat.
C36_StaleConnectionRejected ==
  [][\A c \in P2AllConns :
       (/\ P2_stale(c)
        /\ p2_last'.ev \in {"roll", "keep", "bank"} /\ p2_last'.conn = c)
         => /\ ~p2_last'.state
            /\ p2_rooms' = p2_rooms /\ p2_sock' = p2_sock]_vars

\* the game is on, the seat at turn has points to bank and is bound to another
\* connection, and the connection that remembers it was refused with the sync toast
C36_Witness ==
  \E c \in P2AllConns :
    /\ P2_stale(c)
    /\ p2_last.ev = "bank" /\ p2_last.conn = c /\ p2_last.toast /\ ~p2_last.state
    /\ P2_roomOf(c).game.started
    /\ P2_roomOf(c).game.turnSeat = P2_seatOf(c)
    /\ P2_roomOf(c).game.turnPoints > 0
    /\ P2_roomOf(c).players[P2_seatOf(c)].socketId # NoSock

\* ------------------------------------------------- claims: app.js scores

\* C37: a seat's score changes only in an accepted turn:bank sent by that seat while it
\* is currentTurn (the score grows by exactly turn.turnPoints) or in a game:new (the
\* score becomes 0); rolls, keeps, farkles, joins and disconnects change no score, and
\* the score of the seat that is not at turn does not change during the other's turn.
C37_ScoreOnlyByBankOrNewGame ==
  [][\A code \in DOMAIN app_rooms, s \in Seats :
       (app_rooms'[code].players[s].score # app_rooms[code].players[s].score)
         => \/ /\ app_last'.ev = "turn:bank" /\ app_last'.state
               /\ App_getSeatIndex(app_rooms[code], app_last'.conn) = s
               /\ app_rooms[code].currentTurn = s
               /\ app_rooms'[code].players[s].score
                    = app_rooms[code].players[s].score + app_rooms[code].turn.turnPoints
            \/ /\ app_last'.ev = "game:new" /\ app_last'.state
               /\ app_rooms'[code].players[s].score = 0]_vars

\* a bank has just been accepted and each seat holds points banked in its own turn
C37_Witness ==
  /\ app_last.ev = "turn:bank" /\ app_last.state
  /\ \E code \in DOMAIN app_rooms :
       /\ app_rooms[code].players[0].score > 0
       /\ app_rooms[code].players[1].score > app_rooms[code].players[0].score

\* ------------------------------------------------- claims: part_002 progress of the turn

\* the guards of roll all pass for connection c
P2_rollPasses(c) ==
  /\ p2_sock[c].up /\ P2_hasRoom(c)
  /\ P2_roomOf(c).game.started
  /\ ~P2_notYourTurn(P2_roomOf(c), P2_seatOf(c))
  /\ ~P2_outOfSync(P2_roomOf(c), P2_seatOf(c), c)
  /\ P2_roomOf(c).game.phase \in {"must_roll", "selecting"}

\* the guards of keep all pass for connection c and the index list indices
P2_keepPasses(c, indices) ==
  /\ p2_sock[c].up /\ P2_hasRoom(c)
  /\ P2_roomOf(c).game.started
  /\ ~P2_notYourTurn(P2_roomOf(c), P2_seatOf(c))
  /\ ~P2_outOfSync(P2_roomOf(c), P2_seatOf(c), c)
  /\ P2_roomOf(c).game.phase = "selecting"
  /\ ~P2_alreadyKept(P2_roomOf(c).game, P2_unique(indices))
  /\ P2_scoreSelected(At(P2_roomOf(c).game.dice, P2_unique(indices))).allScoring

\* the connection the seat at turn of the table is bound to, when that connection still
\* addresses this table and seat
P2_atTurn(code, c) ==
  /\ p2_rooms[code].game.started
  /\ p2_rooms[code].game.phase # "finished"
  /\ p2_rooms[code].players[p2_rooms[code].game.turnSeat].socketId = c
  /\ p2_sock[c].up /\ p2_sock[c].roomCode = code
  /\ p2_sock[c].seat = p2_rooms[code].game.turnSeat

\* C38: whenever the game is started and not finished and the connection bound to the
\* seat at turn still addresses this table and seat, an intent of that connection would
\* be accepted: a roll in phase must_roll, and in phase selecting a keep of some unkept
\* dice that scoreSelected accepts.
C38_TurnNeverStuck ==
  \A code \in DOMAIN p2_rooms, c \in P2AllConns :
    P2_atTurn(code, c)
      => \/ p2_rooms[code].game.phase = "must_roll" /\ P2_rollPasses(c)
         \/ /\ p2_rooms[code].game.phase = "selecting"
            /\ \E k \in P2DiceKeeps :
                 /\ P2_unique(k) \subseteq P2_unkept(p2_rooms[code].game)
                 /\ P2_keepPasses(c, k)

\* the seat at turn is selecting with two dice kept, and of the index lists over its four
\* unkept dice exactly one would be accepted
C38_Witness ==
  \E code \in DOMAIN p2_rooms, c \in P2AllConns :
    /\ P2_atTurn(code, c)
    /\ p2_rooms[code].game.phase = "selecting"
    /\ Cardinality(P2_unkept(p2_rooms[code].game)) = 4
    /\ Cardinality({k \in P2DiceKeeps :
                      /\ P2_unique(k) \subseteq P2_unkept(p2_rooms[code].game)
                      /\ P2_keepPasses(c, k)}) = 1

\* ------------------------------------------------- claims: part_001 turn flags

\* C39: in every reachable state with stage IN_PROGRESS exactly one of game.canRoll and
\* game.canKeep is true, and in every reachable state game.canBank is true if and only
\* if game.turnPoints > 0 (so turn:bank never passes its canBank guard with 0 turn
\* points).
C39_TurnFlags ==
  \A code \in DOMAIN p1_rooms :
    LET g == p1_rooms[code].game
    IN /\ (g.stage = "IN_PROGRESS") => (g.canRoll <=> ~g.canKeep)
       /\ g.canBank <=> (g.turnPoints > 0)

\* after hot dice the seat at turn has rolled again: it must keep, and may bank the
\* points in hand
C39_Witness ==
  /\ p1_last.ev = "turn:roll" /\ p1_last.state
  /\ \E code \in DOMAIN p1_rooms :
       LET g == p1_rooms[code].game
       IN /\ g.stage = "IN_PROGRESS"
          /\ g.canKeep /\ ~g.canRoll
          /\ g.canBank /\ g.turnPoints > 0


====
